---- MODULE Spec2Model ----
(***************************************************************************)
(* Model of collectors/monitoring_collector.go: the scrape orchestrator    *)
(* (Collect, reportMonitoringMetrics), the time-series translator          *)
(* (reportTimeSeriesMetrics) and the histogram bucket builder              *)
(* (generateHistogramBuckets).                                             *)
(*                                                                         *)
(* Go values are represented as follows.  A pointer is a sequence of       *)
(* length 0 (nil) or 1 (the pointee).  A map that the code ranges over is  *)
(* a sequence of <<key, value>> pairs with distinct keys, in the order the *)
(* runtime iterates it; every order is an input.  A channel is the         *)
(* sequence of values buffered in it.                                      *)
(***************************************************************************)
EXTENDS Integers, Sequences, FiniteSets, Bags, TLC

(* ------------------------------ bounds -------------------------------- *)
\* Longest point list of a time series.
MaxPoints == 3
\* Most time series in one page handed to reportTimeSeriesMetrics.
MaxSeries == 2
\* Most pages translated one after another in the translator specification.
MaxCalls == 2

\* Most Collect calls.
MaxScrapes == 2
\* opts.DescriptorCacheTTL of a collector with a cache, in clock ticks.
CacheTTL == 2
\* Most explicit bounds, and most finite buckets, of a distribution.
MaxBounds == 2
MaxFinite == 2
\* Longest bucket count array of a distribution.
MaxCounts == 4
\* Most Store and Lookup calls on a cache, and the last tick of its clock,
\* in the cache specification.
MaxCacheCalls == 3
MaxClock == 3
\* Most extra filters, and most aggregation configs, of a collector in the
\* call specification.
MaxConfigs == 2
\* Most series of a page in the page specification.
MaxPage == 3

(* --------------------------- program constants ------------------------ *)
\* time.Unix(0, 0), the start value of newestEndTime.
Epoch == 0

\* c.projectID
ProjectID == "P"

\* The descriptor handed to reportTimeSeriesMetrics in the translator
\* specification.
TSDescriptor ==
    [Type |-> << "custom", "a" >>, Project |-> "P", Unit |-> "By",
     Metadata |-> << >>]

(* ------------------------------ time.Parse ---------------------------- *)
\* The well-formed RFC3339 interval ends of the model, in ascending order.
Timestamps ==
    << "2024-01-01T00:00:01Z", "2024-01-01T00:00:02Z", "2024-01-01T00:00:03Z" >>

\* time.Parse(time.RFC3339Nano, s): the Unix seconds of s, or an error.
TimeParse(s) ==
    IF \E i \in 1..Len(Timestamps) : Timestamps[i] = s
    THEN [err |-> FALSE,
          t   |-> 1704067200 + (CHOOSE i \in 1..Len(Timestamps) : Timestamps[i] = s)]
    ELSE [err |-> TRUE, t |-> Epoch]

\* A mutant of After: every point replaces the newest one.
AfterAlways(t, u) == TRUE

\* endTime.After(newestEndTime)
After(t, u) == t > u

(* ------------------------ generateHistogramBuckets -------------------- *)
\* A float64 bucket boundary: finite, or math.Inf(1).
Fin(x) == [inf |-> FALSE, v |-> x]
PosInf == [inf |-> TRUE, v |-> 0]

RECURSIVE Pow(_, _)
\* math.Pow on the integers of the model.
Pow(b, e) == IF e = 0 THEN 1 ELSE b * Pow(b, e - 1)

\* The bucket keys before the last one is overwritten; <<>> stands for the
\* default branch (no recognized variant).
BucketKeysOf(opts) ==
    IF opts.ExplicitBuckets # <<>>
    THEN LET bounds == opts.ExplicitBuckets[1].Bounds
         IN  [i \in 1..(Len(bounds) + 1) |->
                 IF i <= Len(bounds) THEN Fin(bounds[i]) ELSE Fin(0)]
    ELSE IF opts.LinearBuckets # <<>>
    THEN LET lb  == opts.LinearBuckets[1]
             num == lb.NumFiniteBuckets
         IN  [i \in 1..(num + 2) |->
                 IF i <= num + 1 THEN Fin(lb.Offset + ((i - 1) * lb.Width))
                 ELSE Fin(0)]
    ELSE IF opts.ExponentialBuckets # <<>>
    THEN LET eb  == opts.ExponentialBuckets[1]
             num == eb.NumFiniteBuckets
         IN  [i \in 1..(num + 2) |->
                 IF i <= num + 1 THEN Fin(eb.Scale * Pow(eb.GrowthFactor, i - 1))
                 ELSE Fin(0)]
    ELSE << >>

RECURSIVE CumulativeWalkNoCarry(_, _, _, _, _)
\* The loop over bucketKeys, mutated: last is not added.
CumulativeWalkNoCarry(bucketKeys, counts, i, last, buckets) ==
    IF i > Len(bucketKeys) THEN buckets
    ELSE LET b == bucketKeys[i]
             c == IF Len(counts) >= i THEN counts[i] ELSE last
         IN  CumulativeWalkNoCarry(bucketKeys, counts, i + 1, c,
                                   (b :> c) @@ buckets)

RECURSIVE CumulativeWalk(_, _, _, _, _)
\* The loop over bucketKeys: buckets[b] = counts[i] + last, or last.
CumulativeWalk(bucketKeys, counts, i, last, buckets) ==
    IF i > Len(bucketKeys) THEN buckets
    ELSE LET b == bucketKeys[i]
             c == IF Len(counts) >= i THEN counts[i] + last ELSE last
         IN  CumulativeWalk(bucketKeys, counts, i + 1, c,
                            (b :> c) @@ buckets)

\* generateHistogramBuckets(dist), mutated: the last bucket key is left as
\* make() set it.
generateHistogramBucketsNoInf(dist) ==
    LET keys == BucketKeysOf(dist.BucketOptions)
    IN  IF keys = << >>
        THEN [err |-> TRUE, keys |-> << >>, buckets |-> << >>]
        ELSE [err     |-> FALSE,
              keys    |-> keys,
              buckets |-> CumulativeWalk(keys, dist.BucketCounts, 1, 0, << >>)]

\* generateHistogramBuckets(dist): the bucket map, or an error.
generateHistogramBuckets(dist) ==
    LET keys == BucketKeysOf(dist.BucketOptions)
    IN  IF keys = << >>
        THEN [err |-> TRUE, keys |-> << >>, buckets |-> << >>]
        ELSE LET bucketKeys == [keys EXCEPT ![Len(keys)] = PosInf]
             IN  [err     |-> FALSE,
                  keys    |-> bucketKeys,
                  buckets |-> CumulativeWalk(bucketKeys, dist.BucketCounts,
                                             1, 0, << >>)]

(* ------------------------------ inputs -------------------------------- *)
NoBuckets ==
    [ExplicitBuckets |-> << >>, LinearBuckets |-> << >>,
     ExponentialBuckets |-> << >>]

\* The distributions of the model: explicit bounds [1,2], linear
\* (offset 0, width 2, 3 finite buckets), and no recognized variant.
Distributions ==
    << [BucketOptions |->
            [NoBuckets EXCEPT !.ExplicitBuckets = << [Bounds |-> <<1, 2>>] >>],
        BucketCounts |-> <<1, 2, 3>>],
       [BucketOptions |->
            [NoBuckets EXCEPT !.LinearBuckets =
                << [Offset |-> 0, Width |-> 2, NumFiniteBuckets |-> 3] >>],
        BucketCounts |-> <<1, 1>>],
       [BucketOptions |-> NoBuckets, BucketCounts |-> <<4>>] >>

\* A point whose typed value carries, for every value type, the value
\* derived from n (the API fills the field of the series' value type).
Pt(end, n) ==
    [Interval |-> [EndTime |-> end],
     Value    |-> [BoolValue         |-> (n % 2 = 1),
                   Int64Value        |-> n,
                   DoubleValue       |-> n,
                   DistributionValue |-> Distributions[(n % 3) + 1]]]

(* ------------------------ reportTimeSeriesMetrics --------------------- *)
\* keyExists(labelKeys, key), mutated: no key is ever found.
keyExistsNever(labelKeys, key) == FALSE

\* c.keyExists(labelKeys, key)
keyExists(labelKeys, key) ==
    \E i \in 1..Len(labelKeys) : labelKeys[i] = key

RECURSIVE AddLabels(_, _)
\* The three range loops over a label map: a pair is appended unless its
\* key exists.  lab = [keys, values]; labels is the map in iteration order.
AddLabels(lab, labels) ==
    IF labels = << >> THEN lab
    ELSE LET key   == Head(labels)[1]
             value == Head(labels)[2]
             next  == IF ~keyExists(lab.keys, key)
                      THEN [keys   |-> Append(lab.keys, key),
                            values |-> Append(lab.values, value)]
                      ELSE lab
         IN  AddLabels(next, Tail(labels))

\* json.Unmarshal(timeSeries.Metadata.SystemLabels, &systemLabels)
JsonUnmarshal(raw) ==
    IF raw.valid THEN [err |-> FALSE, labels |-> raw.labels]
    ELSE [err |-> TRUE, labels |-> << >>]

\* labelKeys and labelValues of a series: unit, metric labels, resource
\* labels, then the system labels when present and decodable.
AssembleLabels(md, timeSeries) ==
    LET l0 == [keys |-> << "unit" >>, values |-> << md.Unit >>]
        l1 == AddLabels(l0, timeSeries.Metric.Labels)
        l2 == AddLabels(l1, timeSeries.Resource.Labels)
    IN  IF timeSeries.Metadata # << >>
           /\ timeSeries.Metadata[1].SystemLabels # << >>
        THEN LET r == JsonUnmarshal(timeSeries.Metadata[1].SystemLabels[1])
             IN  IF r.err THEN l2 ELSE AddLabels(l2, r.labels)
        ELSE l2

RECURSIVE ScanPointsLenient(_, _)
\* The loop over timeSeries.Points, mutated: a point whose interval end
\* does not parse is passed over.
ScanPointsLenient(acc, points) ==
    IF points = << >> THEN acc
    ELSE LET point == Head(points)
             r     == TimeParse(point.Interval.EndTime)
         IN  IF ~r.err /\ After(r.t, acc.newestEndTime)
             THEN ScanPointsLenient([err           |-> FALSE,
                                     newestEndTime |-> r.t,
                                     newestTSPoint |-> << point >>],
                                    Tail(points))
             ELSE ScanPointsLenient(acc, Tail(points))

RECURSIVE ScanPoints(_, _)
\* The loop over timeSeries.Points.  acc = [err, newestEndTime,
\* newestTSPoint]; newestTSPoint comes in with the value the previous series
\* left in it.
ScanPoints(acc, points) ==
    IF points = << >> THEN acc
    ELSE LET point == Head(points)
             r     == TimeParse(point.Interval.EndTime)
         IN  IF r.err THEN [acc EXCEPT !.err = TRUE]
             ELSE IF After(r.t, acc.newestEndTime)
             THEN ScanPoints([err           |-> FALSE,
                              newestEndTime |-> r.t,
                              newestTSPoint |-> << point >>], Tail(points))
             ELSE ScanPoints(acc, Tail(points))

\* The delegated-project check, mutated: a matching project_id drops.
DropDelegatedInverted(labelKeys, labelValues) ==
    \E idx \in 1..Len(labelKeys) :
        labelKeys[idx] = "project_id" /\ labelValues[idx] = ProjectID

\* dropDelegatedProject after the loop over labelKeys.
DropDelegatedProject(labelKeys, labelValues) ==
    \E idx \in 1..Len(labelKeys) :
        labelKeys[idx] = "project_id" /\ labelValues[idx] # ProjectID

\* The metric-kind switch, mutated: DELTA is always a counter.
MetricKindSwitchDeltaCounter(metricKind, aggDeltas, old) ==
    CASE metricKind = "GAUGE"      -> [skip |-> FALSE, type |-> "GaugeValue"]
      [] metricKind = "DELTA"      -> [skip |-> FALSE, type |-> "CounterValue"]
      [] metricKind = "CUMULATIVE" -> [skip |-> FALSE, type |-> "CounterValue"]
      [] OTHER                     -> [skip |-> TRUE, type |-> old]

\* switch timeSeries.MetricKind: the new metricValueType, or continue.
MetricKindSwitch(metricKind, aggDeltas, old) ==
    CASE metricKind = "GAUGE"      -> [skip |-> FALSE, type |-> "GaugeValue"]
      [] metricKind = "DELTA"      ->
            [skip |-> FALSE,
             type |-> IF aggDeltas THEN "CounterValue" ELSE "GaugeValue"]
      [] metricKind = "CUMULATIVE" -> [skip |-> FALSE, type |-> "CounterValue"]
      [] OTHER                     -> [skip |-> TRUE, type |-> old]

\* The function-scope variables of reportTimeSeriesMetrics at its start.
ZeroLocals ==
    [metricValue |-> 0, metricValueType |-> "zero", newestTSPoint |-> << >>]

NoCall == << >>

\* One iteration of the loop over page.TimeSeries.  loc holds metricValue,
\* metricValueType and newestTSPoint as the previous iteration left them.
\* outcome: "error" (return of an error), "panic" (nil dereference),
\* "dropped", "unknownKind", "unknownValueType", "discarded" (continue),
\* "histogram", "const" (a Collect call, in call).
TranslateSeries(md, dropDelegated, aggDeltas, loc, timeSeries) ==
    LET scan == ScanPoints([err           |-> FALSE,
                            newestEndTime |-> Epoch,
                            newestTSPoint |-> loc.newestTSPoint],
                           timeSeries.Points)
        lab  == AssembleLabels(md, timeSeries)
        loc1 == [loc EXCEPT !.newestTSPoint = scan.newestTSPoint]
        kind == MetricKindSwitch(timeSeries.MetricKind, aggDeltas,
                                 loc.metricValueType)
        loc2 == [loc1 EXCEPT !.metricValueType = kind.type]
        res(outcome, l, call) ==
            [outcome       |-> outcome,
             loc           |-> l,
             labelKeys     |-> lab.keys,
             labelValues   |-> lab.values,
             newestEndTime |-> scan.newestEndTime,
             call          |-> call]
        const(v) ==
            res("const", [loc2 EXCEPT !.metricValue = v],
                << [fn              |-> "CollectNewConstMetric",
                    reportTime      |-> scan.newestEndTime,
                    labelKeys       |-> lab.keys,
                    metricValueType |-> kind.type,
                    metricValue     |-> v,
                    labelValues     |-> lab.values,
                    metricKind      |-> timeSeries.MetricKind] >>)
        nil  == loc2.newestTSPoint = << >>
        pt   == loc2.newestTSPoint[1]
    IN  IF scan.err THEN res("error", loc, NoCall)
        ELSE IF dropDelegated /\ DropDelegatedProject(lab.keys, lab.values)
        THEN res("dropped", loc1, NoCall)
        ELSE IF kind.skip THEN res("unknownKind", loc1, NoCall)
        ELSE CASE timeSeries.ValueType = "BOOL" ->
                    IF nil THEN res("panic", [loc2 EXCEPT !.metricValue = 0],
                                    NoCall)
                    ELSE const(IF pt.Value.BoolValue THEN 1 ELSE 0)
               [] timeSeries.ValueType = "INT64" ->
                    IF nil THEN res("panic", loc2, NoCall)
                    ELSE const(pt.Value.Int64Value)
               [] timeSeries.ValueType = "DOUBLE" ->
                    IF nil THEN res("panic", loc2, NoCall)
                    ELSE const(pt.Value.DoubleValue)
               [] timeSeries.ValueType = "DISTRIBUTION" ->
                    IF nil THEN res("panic", loc2, NoCall)
                    ELSE LET dist == pt.Value.DistributionValue
                             b    == generateHistogramBuckets(dist)
                         IN  IF ~b.err
                             THEN res("histogram", loc2,
                                      << [fn          |-> "CollectNewConstHistogram",
                                          reportTime  |-> scan.newestEndTime,
                                          labelKeys   |-> lab.keys,
                                          dist        |-> dist,
                                          buckets     |-> b.buckets,
                                          labelValues |-> lab.values,
                                          metricKind  |-> timeSeries.MetricKind] >>)
                             ELSE res("discarded", loc2, NoCall)
               [] OTHER -> res("unknownValueType", loc2, NoCall)

(* ---------- timeSeriesMetrics and the delta stores (not in this file) -- *)
RECURSIVE SeqOfSet(_)
\* The elements of a finite set, one after another.
SeqOfSet(S) ==
    IF S = {} THEN << >>
    ELSE LET x == CHOOSE y \in S : TRUE IN << x >> \o SeqOfSet(S \ {x})

\* newTimeSeriesMetrics, mutated: the aggregate-deltas flag is not passed.
newTimeSeriesMetricsNoAggregation(md, aggDeltas) ==
    [metricDescriptor |-> md, aggregateDeltas |-> FALSE]

\* newTimeSeriesMetrics(metricDescriptor, ch, c.collectorFillMissingLabels,
\* c.counterStore, c.histogramStore, c.aggregateDeltas)
newTimeSeriesMetrics(md, aggDeltas) ==
    [metricDescriptor |-> md, aggregateDeltas |-> aggDeltas]

\* DeltaKey: descriptor type plus the deduplicated label set.
DeltaKey(md, labelKeys, labelValues) ==
    [type   |-> md.Type,
     labels |-> { << labelKeys[i], labelValues[i] >> : i \in 1..Len(labelKeys) }]

\* DeltaCounterStore.Increment: created on the first observation of a key,
\* added to on every later one.
CounterIncrement(store, key, value, reportTime) ==
    IF key \in DOMAIN store
    THEN [store EXCEPT ![key] = [value      |-> @.value + value,
                                 reportTime |-> reportTime]]
    ELSE (key :> [value |-> value, reportTime |-> reportTime]) @@ store

\* The per-bucket sum of two bucket maps.
AddBuckets(a, b) ==
    [k \in (DOMAIN a) \cup (DOMAIN b) |->
        (IF k \in DOMAIN a THEN a[k] ELSE 0)
      + (IF k \in DOMAIN b THEN b[k] ELSE 0)]

\* DeltaHistogramStore.Increment
HistogramIncrement(store, key, buckets, reportTime) ==
    IF key \in DOMAIN store
    THEN [store EXCEPT ![key] = [buckets    |-> AddBuckets(@.buckets, buckets),
                                 reportTime |-> reportTime]]
    ELSE (key :> [buckets |-> buckets, reportTime |-> reportTime]) @@ store

\* A sample sent on ch.
Sample(name, labelKeys, labelValues, valueType, value, buckets, reportTime) ==
    [name        |-> name,
     labelKeys   |-> labelKeys,
     labelValues |-> labelValues,
     valueType   |-> valueType,
     value       |-> value,
     buckets     |-> buckets,
     reportTime  |-> reportTime]

\* timeSeriesMetrics.CollectNewConstMetric / CollectNewConstHistogram applied
\* to the call of one loop iteration (none: nothing happens).  A DELTA value
\* goes to the store when deltas are aggregated, every other value straight
\* to ch.  st = [sent, counterStore, histogramStore].
CollectNew(tsm, st, call) ==
    IF call = NoCall THEN st
    ELSE LET c   == call[1]
             md  == tsm.metricDescriptor
             key == DeltaKey(md, c.labelKeys, c.labelValues)
             agg == c.metricKind = "DELTA" /\ tsm.aggregateDeltas
         IN  IF c.fn = "CollectNewConstMetric"
             THEN IF agg
                  THEN [st EXCEPT !.counterStore =
                            CounterIncrement(@, key, c.metricValue, c.reportTime)]
                  ELSE [st EXCEPT !.sent =
                            Append(@, Sample(md.Type, c.labelKeys, c.labelValues,
                                             c.metricValueType, c.metricValue,
                                             << >>, c.reportTime))]
             ELSE IF agg
                  THEN [st EXCEPT !.histogramStore =
                            HistogramIncrement(@, key, c.buckets, c.reportTime)]
                  ELSE [st EXCEPT !.sent =
                            Append(@, Sample(md.Type, c.labelKeys, c.labelValues,
                                             "Histogram", 0, c.buckets,
                                             c.reportTime))]

\* The label keys and values of a DeltaKey, "unit" first.
KeyLabels(key) ==
    LET rest == SeqOfSet({ kv \in key.labels : kv[1] # "unit" })
        unit == CHOOSE kv \in key.labels : kv[1] = "unit"
    IN  << unit >> \o rest

\* timeSeriesMetrics.Complete(begun): the running totals the stores hold for
\* the descriptor are sent on ch.
Complete(tsm, st) ==
    LET md == tsm.metricDescriptor
        ck == SeqOfSet({ k \in DOMAIN st.counterStore : k.type = md.Type })
        hk == SeqOfSet({ k \in DOMAIN st.histogramStore : k.type = md.Type })
        cs == [i \in 1..Len(ck) |->
                 LET l == KeyLabels(ck[i])
                 IN  Sample(md.Type, [j \in 1..Len(l) |-> l[j][1]],
                            [j \in 1..Len(l) |-> l[j][2]], "CounterValue",
                            st.counterStore[ck[i]].value, << >>,
                            st.counterStore[ck[i]].reportTime)]
        hs == [i \in 1..Len(hk) |->
                 LET l == KeyLabels(hk[i])
                 IN  Sample(md.Type, [j \in 1..Len(l) |-> l[j][1]],
                            [j \in 1..Len(l) |-> l[j][2]], "Histogram", 0,
                            st.histogramStore[hk[i]].buckets,
                            st.histogramStore[hk[i]].reportTime)]
    IN  [st EXCEPT !.sent = @ \o cs \o hs]

(* --------------------------- translator inputs ------------------------ *)
MetricKinds == { "GAUGE", "DELTA", "CUMULATIVE", "METRIC_KIND_UNSPECIFIED" }
ValueTypes  == { "BOOL", "INT64", "DOUBLE", "DISTRIBUTION", "STRING" }

BaseSeries ==
    [Points     |-> << Pt(Timestamps[1], 5) >>,
     MetricKind |-> "GAUGE",
     ValueType  |-> "INT64",
     Metric     |-> [Labels |-> << >>],
     Resource   |-> [Labels |-> << >>],
     Metadata   |-> << >>]

\* Points with ends t1 < t2 < t3 and values 1, 2, 3, and a point whose
\* interval end is malformed.
PointSet ==
    { Pt(Timestamps[1], 1), Pt(Timestamps[2], 2), Pt(Timestamps[3], 3),
      Pt("yesterday", 4) }

\* The point lists of the model: the points of PointSet in any order, no
\* point twice.
PointSeqs ==
    UNION { { ps \in [1..n -> PointSet] :
                \A i, j \in 1..n : ps[i] = ps[j] => i = j } :
            n \in 0..MaxPoints }

\* Series that differ in their points.
PointSeries == { [BaseSeries EXCEPT !.Points = ps] : ps \in PointSeqs }

\* Series that differ in metric kind and value type, with one point or none.
KindSeries ==
    { [BaseSeries EXCEPT !.Points = ps, !.MetricKind = k, !.ValueType = v] :
        ps \in { << >>, << Pt(Timestamps[2], 7) >> },
        k \in MetricKinds, v \in ValueTypes }

\* Distributions of the other variants.
DistSeries ==
    { [BaseSeries EXCEPT !.Points = << Pt(Timestamps[1], n) >>,
                         !.ValueType = "DISTRIBUTION"] : n \in { 5, 3 } }

MetricLabelChoices ==
    { << >>, << <<"unit", "m">> >>, << <<"project_id", "P">> >>,
      << <<"zone", "m">>, <<"project_id", "Q">> >> }

ResourceLabelChoices ==
    { << >>, << <<"unit", "r">>, <<"project_id", "R">> >> }

SystemLabelChoices ==
    { << >>,
      << [SystemLabels |-> << >>] >>,
      << [SystemLabels |-> << [valid |-> FALSE, labels |-> << >>] >>] >>,
      << [SystemLabels |-> << [valid  |-> TRUE,
                               labels |-> << <<"project_id", "S">>,
                                             <<"zone", "s">> >>] >>] >> }

\* Series that differ in their label maps.
LabelSeries ==
    { [BaseSeries EXCEPT !.Metric = [Labels |-> m], !.Resource = [Labels |-> r],
                         !.Metadata = s] :
        m \in MetricLabelChoices, r \in ResourceLabelChoices,
        s \in SystemLabelChoices }

SeriesSet == PointSeries \cup KindSeries \cup DistSeries \cup LabelSeries

\* The series of the delta specification: DELTA series of two DeltaKeys (one
\* of them with its label map in both iteration orders) with values 5 and 7,
\* a DELTA series without points and a GAUGE series.
DeltaSeries ==
    { [BaseSeries EXCEPT !.Points = ps, !.MetricKind = "DELTA",
                         !.Metric = [Labels |-> m]] :
        ps \in { << Pt(Timestamps[1], 5) >>, << Pt(Timestamps[2], 7) >> },
        m \in { << >>, << <<"zone", "m">>, <<"project_id", "P">> >>,
                << <<"project_id", "P">>, <<"zone", "m">> >> } }
    \cup { [BaseSeries EXCEPT !.Points = << >>, !.MetricKind = "DELTA"],
           BaseSeries }

(* ------------- reportTimeSeriesMetrics on a whole page ---------------- *)
RECURSIVE TranslateLoop(_, _, _)
\* The loop over page.TimeSeries.  env = [md, dropDelegated, aggDeltas];
\* acc = [outcome, loc, st] with outcome "ok", "error" or "panic".
TranslateLoop(env, acc, series) ==
    IF series = << >> \/ acc.outcome # "ok" THEN acc
    ELSE LET r == TranslateSeries(env.md, env.dropDelegated, env.aggDeltas,
                                  acc.loc, Head(series))
         IN  TranslateLoop(env,
                [outcome |-> IF r.outcome \in { "error", "panic" }
                             THEN r.outcome ELSE "ok",
                 loc     |-> r.loc,
                 st      |-> CollectNew(newTimeSeriesMetrics(env.md, env.aggDeltas),
                                        acc.st, r.call)],
                Tail(series))

\* reportTimeSeriesMetrics(page, metricDescriptor, ch, begun): the loop, then
\* Complete unless the loop returned an error.
reportTimeSeriesMetrics(env, page, stores) ==
    LET acc == TranslateLoop(env,
                   [outcome |-> "ok", loc |-> ZeroLocals,
                    st |-> [sent           |-> << >>,
                            counterStore   |-> stores.counterStore,
                            histogramStore |-> stores.histogramStore]],
                   page.TimeSeries)
    IN  IF acc.outcome = "ok"
        THEN [outcome |-> "ok",
              st |-> Complete(newTimeSeriesMetrics(env.md, env.aggDeltas), acc.st)]
        ELSE [outcome |-> acc.outcome, st |-> acc.st]

(* ------------------------- descriptor cache --------------------------- *)
\* The path segments of the model that contain "googleapis.com".
GoogleSegments == { "compute.googleapis.com", "googleapis.com" }

\* isGoogleMetric, mutated: any path segment may contain "googleapis.com".
isGoogleMetricAnySegment(name) ==
    \E i \in 1..Len(name) : name[i] \in GoogleSegments

\* strings.Split(name, "/")[0] contains "googleapis.com".  A metric type or
\* prefix is the sequence of its path segments.
isGoogleMetric(name) ==
    name # << >> /\ name[1] \in GoogleSegments

\* descriptorCache.Lookup (not in this file): the stored list while
\* now < expiry, else nil.
InnerLookup(cache, prefix, now) ==
    IF prefix \in DOMAIN cache /\ now < cache[prefix].expiry
    THEN cache[prefix].data ELSE << >>

\* descriptorCache.Store (not in this file)
InnerStore(cache, prefix, data, now, ttl) ==
    (prefix :> [data |-> data, expiry |-> now + ttl]) @@ cache

\* c.descriptorCache.Lookup(prefix), mutated: every lookup misses.
CacheLookupMiss(mode, cache, prefix, now) == << >>

\* c.descriptorCache.Lookup(prefix) for the cache NewMonitoringCollector
\* chose: noopDescriptorCache, googleDescriptorCache or descriptorCache.
CacheLookup(mode, cache, prefix, now) ==
    CASE mode = "noop"   -> << >>
      [] mode = "google" -> IF ~isGoogleMetric(prefix) THEN << >>
                            ELSE InnerLookup(cache, prefix, now)
      [] OTHER           -> InnerLookup(cache, prefix, now)

\* c.descriptorCache.Store(prefix, data)
CacheStore(mode, cache, prefix, data, now, ttl) ==
    CASE mode = "noop"   -> cache
      [] mode = "google" -> IF ~isGoogleMetric(prefix) THEN cache
                            ELSE InnerStore(cache, prefix, data, now, ttl)
      [] OTHER           -> InnerStore(cache, prefix, data, now, ttl)

\* The options a collector of the orchestrator specification can be built
\* with: a zero or non-zero DescriptorCacheTTL, DescriptorCacheOnlyGoogle, a
\* request interval of 5 ticks at an offset of 1 tick, no extra filters and
\* no aggregation configs.
CollectorOptions ==
    [DescriptorCacheTTL        : { 0, CacheTTL },
     DescriptorCacheOnlyGoogle : BOOLEAN,
     RequestInterval           : { 5 },
     RequestOffset             : { 1 },
     ExtraFilters              : { << >> },
     MetricAggregationConfigs  : { << >> }]

\* The options of a collector that is not asked to scrape.
NoOptions ==
    [DescriptorCacheTTL        |-> 0,
     DescriptorCacheOnlyGoogle |-> FALSE,
     RequestInterval           |-> 5,
     RequestOffset             |-> 1,
     ExtraFilters              |-> << >>,
     MetricAggregationConfigs  |-> << >>]

\* The choice of the cache, mutated: a zero TTL stands for the TTL CacheTTL.
NewDescriptorCacheDefaultTTL(o) ==
    [mode |-> IF o.DescriptorCacheOnlyGoogle THEN "google" ELSE "ttl",
     ttl  |-> IF o.DescriptorCacheTTL = 0 THEN CacheTTL
              ELSE o.DescriptorCacheTTL]

\* The cache NewMonitoringCollector chooses: which implementation, and the
\* TTL it is built with.
NewDescriptorCache(o) ==
    IF o.DescriptorCacheTTL = 0 THEN [mode |-> "noop", ttl |-> 0]
    ELSE IF o.DescriptorCacheOnlyGoogle
    THEN [mode |-> "google", ttl |-> o.DescriptorCacheTTL]
    ELSE [mode |-> "ttl", ttl |-> o.DescriptorCacheTTL]

(* ----------------------- reportMonitoringMetrics ---------------------- *)
RECURSIVE UniqueDescriptors(_, _)
\* uniqueDescriptors[descriptor.Type] = descriptor, for each descriptor of
\* the list in order: the last descriptor of a type stays.
UniqueDescriptors(unique, descriptors) ==
    IF descriptors = << >> THEN unique
    ELSE UniqueDescriptors((Head(descriptors).Type :> Head(descriptors))
                               @@ unique,
                           Tail(descriptors))

\* time.ParseDuration(ingestDelay)
ParseDuration(d) ==
    IF d \in { "60s" } THEN [err |-> FALSE, seconds |-> 60]
    ELSE [err |-> TRUE, seconds |-> 0]

\* strings.HasPrefix(s, prefix), a string being the sequence of its pieces.
HasPrefix(str, prefix) ==
    Len(prefix) <= Len(str) /\ SubSeq(str, 1, Len(prefix)) = prefix

\* A clause of a filter; a filter is the sequence of the clauses that the
\* string joins with " AND ".
Clause(kind, arg) == [clause |-> kind, arg |-> arg]

\* filter before the extra filters: metric.type="<type>", after
\* project="<projectID>" when delegated projects are dropped.
TypeFilter(c, md) ==
    IF c.monitoringDropDelegatedProjects
    THEN << Clause("project=", << c.projectID >>),
            Clause("metric.type=", md.Type) >>
    ELSE << Clause("metric.type=", md.Type) >>

RECURSIVE AddExtraFilters(_, _, _)
\* The loop over c.metricsFilters: "(<FilterQuery>)" is appended for each
\* filter whose TargetedMetricPrefix is a prefix of the type.
AddExtraFilters(filter, metricsFilters, md) ==
    IF metricsFilters = << >> THEN filter
    ELSE LET ef == Head(metricsFilters)
         IN  AddExtraFilters(
                 IF HasPrefix(md.Type, ef.TargetedMetricPrefix)
                 THEN Append(filter, Clause("()", ef.FilterQuery))
                 ELSE filter,
                 Tail(metricsFilters), md)

RECURSIVE LastAggregation(_, _, _)
\* The loop over c.metricsAggregationConfigs, mutated: without the break.
LastAggregation(aggregation, configs, md) ==
    IF configs = << >> THEN aggregation
    ELSE LastAggregation(
             IF HasPrefix(md.Type, Head(configs).TargetedMetricPrefix)
             THEN << Head(configs) >> ELSE aggregation,
             Tail(configs), md)

RECURSIVE FirstAggregation(_, _, _)
\* The loop over c.metricsAggregationConfigs: the aggregation parameters of
\* the call are set from the first config whose TargetedMetricPrefix is a
\* prefix of the type, and the loop breaks.
FirstAggregation(aggregation, configs, md) ==
    IF configs = << >> THEN aggregation
    ELSE IF HasPrefix(md.Type, Head(configs).TargetedMetricPrefix)
    THEN << Head(configs) >>
    ELSE FirstAggregation(aggregation, Tail(configs), md)

\* endTime and startTime of metricDescriptorsFunction.
QueryWindow(nowT, c) ==
    [endTime   |-> nowT - c.metricsOffset,
     startTime |-> (nowT - c.metricsOffset) - c.metricsInterval]

\* The window of a descriptor goroutine, mutated: only endTime is shifted.
ShiftWindowEndOnly(window, seconds) ==
    [endTime   |-> window.endTime - seconds,
     startTime |-> window.startTime]

\* endTime.Add(ingestDelayDuration * -1), startTime.Add(... * -1) on the
\* goroutine's own copies.
ShiftWindow(window, seconds) ==
    [endTime   |-> window.endTime - seconds,
     startTime |-> window.startTime - seconds]

\* A descriptor goroutine up to its request loop: the error of a malformed
\* ingest delay, or the call it is going to send: filter, interval,
\* aggregation (no parameters, or those of one config).
NewTimeSeriesListCall(c, md, window) ==
    LET delayed == /\ c.metricsIngestDelay
                   /\ md.Metadata # << >>
                   /\ md.Metadata[1].IngestDelay # ""
        d == IF delayed THEN ParseDuration(md.Metadata[1].IngestDelay)
             ELSE [err |-> FALSE, seconds |-> 0]
        w == IF delayed THEN ShiftWindow(window, d.seconds) ELSE window
    IN  IF d.err
        THEN [err |-> TRUE, filter |-> << >>, interval |-> window,
              aggregation |-> << >>]
        ELSE [err         |-> FALSE,
              filter      |-> AddExtraFilters(TypeFilter(c, md),
                                              c.metricsFilters, md),
              interval    |-> w,
              aggregation |-> FirstAggregation(<< >>,
                                  c.metricsAggregationConfigs, md)]

\* The fields of the collector that NewMonitoringCollector sets from the
\* options and that the construction of a call reads.
CollectorOf(o, drop, ingestDelay) ==
    [projectID                       |-> ProjectID,
     monitoringDropDelegatedProjects |-> drop,
     metricsIngestDelay              |-> ingestDelay,
     metricsInterval                 |-> o.RequestInterval,
     metricsOffset                   |-> o.RequestOffset,
     metricsFilters                  |-> o.ExtraFilters,
     metricsAggregationConfigs       |-> o.MetricAggregationConfigs]

\* make(chan error, n), mutated: the channel is unbuffered.
ErrChannelUnbuffered(n) == 0

\* make(chan error, n): the capacity of an error channel made for n units.
ErrChannelCap(n) == n

\* The request loop of a descriptor goroutine, mutated: it goes on after a
\* translation error.
LoopBreaksNotOnTranslation(outcome, page) ==
    \/ outcome \in { "requestError", "nilPage", "panic" }
    \/ (outcome = "ok" /\ page.NextPageToken = "")

\* The breaks of the request loop of a descriptor goroutine: after a
\* request error, a nil page, a translation error, or a page with an empty
\* next-page token.  outcome is what the iteration came to: "requestError",
\* "nilPage", "translateError", "panic" or "ok".
LoopBreaks(outcome, page) ==
    \/ outcome # "ok"
    \/ page.NextPageToken = ""

Nil == << >>

\* <-errChannel on a closed channel, mutated: the error is lost.
FirstErrorLost(errChan) == Nil

\* return <-errChannel after close(errChannel): the first buffered error,
\* or nil when the channel is empty.
FirstError(errChan) ==
    IF errChan = << >> THEN Nil ELSE << Head(errChan) >>

\* wg.Wait(), mutated: the barrier does not wait.
AllDoneNoWait(pcs) == TRUE

\* wg.Wait(): every unit counted in the wait group is done.
AllDone(pcs) == \A pc \in pcs : pc = "done"

\* The scrape meta-metrics Collect sends, in the order it sends them.
MetaMetrics(scrapeErrors, apiCalls, scrapes, lastError, nowT) ==
    LET m(name, valueType, value) ==
            Sample(<< "stackdriver", "monitoring", name >>, << "project_id" >>,
                   << ProjectID >>, valueType, value, << >>, Epoch)
    IN  << m("scrape_errors_total", "CounterValue", scrapeErrors),
           m("api_calls_total", "CounterValue", apiCalls),
           m("scrapes_total", "CounterValue", scrapes),
           m("last_scrape_error", "GaugeValue", lastError),
           m("last_scrape_timestamp", "GaugeValue", nowT),
           m("last_scrape_duration_seconds", "GaugeValue", 0) >>

(* ------------------------- the metrics API ---------------------------- *)
\* c.metricsTypePrefixes
MetricsTypePrefixes == << << "compute.googleapis.com" >>, << "custom" >> >>
Prefixes == { MetricsTypePrefixes[i] : i \in 1..Len(MetricsTypePrefixes) }

Descriptor(type, project, delay) ==
    [Type |-> type, Project |-> project, Unit |-> "By",
     Metadata |-> IF delay = "none" THEN << >>
                  ELSE << [IngestDelay |-> delay] >>]

\* The descriptors the API holds under each prefix: type a in two scopes
\* (one with an ingest delay) and type b in two scopes (one with a malformed
\* ingest delay, one without metadata) under the first prefix, type c under
\* the second.
DescriptorsOf(prefix) ==
    IF prefix = MetricsTypePrefixes[1]
    THEN { Descriptor(prefix \o << "a" >>, "P", ""),
           Descriptor(prefix \o << "a" >>, "Q", "60s"),
           Descriptor(prefix \o << "b" >>, "P", "1 fortnight"),
           Descriptor(prefix \o << "b" >>, "Q", "none") }
    ELSE { Descriptor(prefix \o << "c" >>, "P", "none") }

\* A page of the time-series listing of a type.
TSPage(series, token) == [TimeSeries |-> series, NextPageToken |-> token]

\* The time-series listing of each type: two pages for a, one page whose
\* second series has a malformed interval end for b, one page for c.
TimeSeriesOf(type) ==
    LET last == type[Len(type)]
        one(n, t, zone) ==
            [BaseSeries EXCEPT !.Points = << Pt(Timestamps[t], n) >>,
                               !.Resource = [Labels |-> << <<"zone", zone>> >>]]
    IN  CASE last = "a" -> << TSPage(<< one(5, 1, "x") >>, "page2"),
                              TSPage(<< one(7, 2, "y") >>, "") >>
          [] last = "b" -> << TSPage(<< one(3, 1, "x"),
                                        [BaseSeries EXCEPT !.Points =
                                            << Pt("yesterday", 4) >>] >>, "") >>
          [] OTHER      -> << TSPage(<< one(1, 3, "x") >>, "") >>

\* The page the API answers a time-series request of a type with: the first
\* page for an empty page token, else the page that follows the page which
\* gave the token.
TSResponse(type, pageToken) ==
    LET pages == TimeSeriesOf(type)
    IN  IF pageToken = "" THEN pages[1]
        ELSE pages[CHOOSE k \in 2..Len(pages) :
                       pages[k - 1].NextPageToken = pageToken]

\* The descriptor listings the API returns for a prefix, as sequences of
\* pages; the API lists a descriptor once, and one type may be listed from
\* two scopes.  Under the first prefix: two types on one page; one type from
\* two scopes and a second type on one page; one type from two scopes on
\* two pages; a page with type b followed by a page with type a.
ListingsOf(prefix) ==
    IF prefix = MetricsTypePrefixes[1]
    THEN LET aP == Descriptor(prefix \o << "a" >>, "P", "")
             aQ == Descriptor(prefix \o << "a" >>, "Q", "60s")
             bP == Descriptor(prefix \o << "b" >>, "P", "1 fortnight")
             bQ == Descriptor(prefix \o << "b" >>, "Q", "none")
         IN  { << << aP, bP >> >>,
               << << aP, aQ, bQ >> >>,
               << << aP >>, << aQ >> >>,
               << << bP >>, << aP >> >> }
    ELSE { << << Descriptor(prefix \o << "c" >>, "P", "none") >> >> }

(* ------------------------------- state -------------------------------- *)
VARIABLES
    aggregateDeltas,   \* c.aggregateDeltas
    dropDelegated,     \* c.monitoringDropDelegatedProjects
    counterStore,      \* c.counterStore: DeltaKey -> [value, reportTime]
    histogramStore,    \* c.histogramStore: DeltaKey -> [buckets, reportTime]
    ch,                \* what the last step sent on ch, in order
    tsPc,              \* reportTimeSeriesMetrics: "idle", "loop", "panic"
    tsLoc,             \* its metricValue, metricValueType, newestTSPoint
    tsSeries,          \* the series of the last loop iteration (0 or 1)
    tsRes,             \* the result of the last loop iteration (0 or 1)
    tsCount,           \* series of the page translated so far
    tsCalls,           \* pages translated so far
    tsErr,             \* whether the last call returned an error
    observed,          \* bag of the DELTA values passed to CollectNewConstMetric
    metricsIngestDelay,\* c.metricsIngestDelay
    cacheMode,         \* the DescriptorCache chosen: "noop", "ttl", "google"
    listing,           \* the API's descriptor listing of each prefix (pages)
    now,               \* the clock
    descriptorCache,   \* the inner cache: prefix -> [data, expiry]
    collectPc,         \* Collect: "idle", "running", "done"
    pPc,               \* each prefix goroutine: "idle", "lookup", "list",
                       \* "page" (in metricDescriptorsFunction), "done"
    pHit,              \* whether the prefix goroutine works from the cache
    pIdx,              \* descriptor-list pages it has received
    pAcc,              \* its local variable cache
    pErrChannel,       \* errChannel of its metricDescriptorsFunction call
    units,             \* the descriptor goroutines of that call, by type:
                       \* [pc: "start"/"fetch"/"done"/"crashed", md, pages]
    errChannel,        \* errChannel of reportMonitoringMetrics
    apiCallsTotal,     \* c.apiCallsTotalMetric
    scrapesTotal,      \* c.scrapesTotalMetric
    scrapeErrorsTotal, \* c.scrapeErrorsTotalMetric
    lastScrapeError,   \* c.lastScrapeErrorMetric
    gathered,          \* bag of everything sent on ch during this Collect
    started,           \* bag of <<prefix, type>>: descriptor goroutines
                       \* started during this Collect
    reported,          \* the errors the units of this Collect reported
    listFailed,        \* prefixes whose descriptor-list request failed
    scrapeErr,         \* what reportMonitoringMetrics returned (nil or error)
    opts,              \* the cache options NewMonitoringCollector was given
    listRequests,      \* descriptor-list requests sent for each prefix
                       \* during this Collect
    tsRequests,        \* time-series requests sent during this Collect
    apiCallsBegun,     \* c.apiCallsTotalMetric when this Collect began
    dist,              \* generateHistogramBuckets: its argument (0 or 1)
    histogram,         \* generateHistogramBuckets: its result (0 or 1)
    gCache,            \* googleDescriptorCache: its inner cache
    plainCache,        \* a descriptorCache given the same Store calls
    cacheClock,        \* the clock of the two caches
    cacheCalls,        \* Store and Lookup calls made so far
    lookedUp,          \* the last call if it was a Lookup: key and what
                       \* each of the two caches returned (0 or 1)
    callArgs,          \* a descriptor goroutine: collector fields,
                       \* descriptor, startTime and endTime (0 or 1)
    listCall,          \* the call it built, or its error (0 or 1)
    pageArg,           \* reportTimeSeriesMetrics on a whole page: the page
                       \* (0 or 1)
    pageRes            \* what it returned and sent (0 or 1)

tsVars == << tsPc, tsLoc, tsSeries, tsRes, tsCount, tsCalls, tsErr, observed >>

configVars == << aggregateDeltas, dropDelegated, metricsIngestDelay, cacheMode,
                 listing, opts >>

orchVars ==
    << metricsIngestDelay, cacheMode, listing, now, descriptorCache, collectPc,
       pPc, pHit, pIdx, pAcc, pErrChannel, units, errChannel, apiCallsTotal,
       scrapesTotal, scrapeErrorsTotal, lastScrapeError, gathered, started,
       reported, listFailed, scrapeErr, opts, listRequests, tsRequests,
       apiCallsBegun >>

\* The variables of the specifications of single functions.
histVars == << dist, histogram >>
cacheVars == << gCache, plainCache, cacheClock, cacheCalls, lookedUp >>
callVars == << callArgs, listCall >>
pageVars == << pageArg, pageRes >>
fnVars == << histVars, cacheVars, callVars, pageVars >>

vars ==
    << aggregateDeltas, dropDelegated, counterStore, histogramStore, ch,
       tsVars, orchVars, fnVars >>

\* No function of the function specifications has been called.
HistIdle ==
    /\ dist = << >>
    /\ histogram = << >>

CacheIdle ==
    /\ gCache = << >>
    /\ plainCache = << >>
    /\ cacheClock = 0
    /\ cacheCalls = 0
    /\ lookedUp = << >>

CallIdle ==
    /\ callArgs = << >>
    /\ listCall = << >>

PageIdle ==
    /\ pageArg = << >>
    /\ pageRes = << >>

FnIdle == HistIdle /\ CacheIdle /\ CallIdle /\ PageIdle

\* The translator at rest.
TSIdle ==
    /\ tsPc = "idle"
    /\ tsLoc = ZeroLocals
    /\ tsSeries = << >>
    /\ tsRes = << >>
    /\ tsCount = 0
    /\ tsCalls = 0
    /\ tsErr = FALSE
    /\ observed = EmptyBag

\* The collector after NewMonitoringCollector, before the first Collect.
CollectorNew ==
    /\ now = 0
    /\ descriptorCache = << >>
    /\ collectPc = "idle"
    /\ pPc = [p \in Prefixes |-> "idle"]
    /\ pHit = [p \in Prefixes |-> FALSE]
    /\ pIdx = [p \in Prefixes |-> 0]
    /\ pAcc = [p \in Prefixes |-> << >>]
    /\ pErrChannel = [p \in Prefixes |-> << >>]
    /\ units = [p \in Prefixes |-> << >>]
    /\ errChannel = << >>
    /\ apiCallsTotal = 0
    /\ scrapesTotal = 0
    /\ scrapeErrorsTotal = 0
    /\ lastScrapeError = 0
    /\ gathered = EmptyBag
    /\ started = EmptyBag
    /\ reported = {}
    /\ listFailed = {}
    /\ scrapeErr = Nil
    /\ listRequests = [p \in Prefixes |-> 0]
    /\ tsRequests = 0
    /\ apiCallsBegun = 0
    /\ counterStore = << >>
    /\ histogramStore = << >>
    /\ ch = << >>

(* ------------------- translator specification (SpecTS) ---------------- *)
InitTS ==
    /\ aggregateDeltas \in BOOLEAN
    /\ dropDelegated \in BOOLEAN
    /\ metricsIngestDelay = FALSE
    /\ opts = NoOptions
    /\ cacheMode = NewDescriptorCache(opts).mode
    /\ listing = [p \in Prefixes |-> << >>]
    /\ CollectorNew
    /\ TSIdle
    /\ FnIdle

\* Entry of reportTimeSeriesMetrics with a new page.
TSBegin ==
    /\ tsPc = "idle"
    /\ tsCalls < MaxCalls
    /\ tsPc' = "loop"
    /\ tsLoc' = ZeroLocals
    /\ tsSeries' = << >>
    /\ tsRes' = << >>
    /\ tsCount' = 0
    /\ tsCalls' = tsCalls + 1
    /\ tsErr' = FALSE
    /\ ch' = << >>
    /\ UNCHANGED << aggregateDeltas, dropDelegated, counterStore,
                    histogramStore, observed, orchVars, fnVars >>

\* One iteration of the loop over page.TimeSeries, on the next series of
\* the page.
TSSeries(timeSeries) ==
    /\ tsPc = "loop"
    /\ tsCount < MaxSeries
    /\ LET tsm == newTimeSeriesMetrics(TSDescriptor, aggregateDeltas)
           r   == TranslateSeries(TSDescriptor, dropDelegated, aggregateDeltas,
                                  tsLoc, timeSeries)
           st  == CollectNew(tsm,
                             [sent           |-> << >>,
                              counterStore   |-> counterStore,
                              histogramStore |-> histogramStore], r.call)
       IN  /\ tsSeries' = << timeSeries >>
           /\ tsRes' = << r >>
           /\ tsLoc' = r.loc
           /\ tsCount' = tsCount + 1
           /\ ch' = st.sent
           /\ counterStore' = st.counterStore
           /\ histogramStore' = st.histogramStore
           /\ tsPc' = CASE r.outcome = "error" -> "idle"
                        [] r.outcome = "panic" -> "panic"
                        [] OTHER -> "loop"
           /\ tsErr' = (r.outcome = "error")
           /\ observed' =
                IF r.outcome = "const" /\ timeSeries.MetricKind = "DELTA"
                THEN observed (+) SetToBag({ [key   |-> DeltaKey(TSDescriptor,
                                                         r.labelKeys,
                                                         r.labelValues),
                                              value |-> r.call[1].metricValue] })
                ELSE observed
    /\ UNCHANGED << aggregateDeltas, dropDelegated, tsCalls, orchVars, fnVars >>

\* The end of the page: timeSeriesMetrics.Complete(begun) and return nil.
TSComplete ==
    /\ tsPc = "loop"
    /\ LET tsm == newTimeSeriesMetrics(TSDescriptor, aggregateDeltas)
           st  == Complete(tsm, [sent           |-> << >>,
                                 counterStore   |-> counterStore,
                                 histogramStore |-> histogramStore])
       IN  ch' = st.sent
    /\ tsPc' = "idle"
    /\ tsSeries' = << >>
    /\ tsRes' = << >>
    /\ UNCHANGED << aggregateDeltas, dropDelegated, counterStore,
                    histogramStore, tsLoc, tsCount, tsCalls, tsErr, observed,
                    orchVars, fnVars >>

\* One call of reportTimeSeriesMetrics on any page of SeriesSet.
NextTS ==
    \/ tsCalls = 0 /\ TSBegin
    \/ \E timeSeries \in SeriesSet : TSSeries(timeSeries)
    \/ TSComplete

SpecTS == InitTS /\ [][NextTS]_vars

\* Successive calls of reportTimeSeriesMetrics on pages of DeltaSeries.
NextDelta ==
    \/ TSBegin
    \/ \E timeSeries \in DeltaSeries : TSSeries(timeSeries)
    \/ TSComplete

SpecDelta == InitTS /\ [][NextDelta]_vars

(* --------- generateHistogramBuckets specification (SpecHist) ---------- *)
\* Strictly increasing sequences of at most n numbers of 1..(n + 1): the
\* API's explicit bounds.
IncreasingSeqs(n) ==
    UNION { { b \in [1..k -> 1..(n + 1)] :
                \A i \in 1..k : \A j \in 1..k : i < j => b[i] < b[j] } :
            k \in 0..n }

\* The bucket options of the API: one variant of the three, or none.
BucketOptionsSet ==
    { [NoBuckets EXCEPT !.ExplicitBuckets = << [Bounds |-> b] >>] :
        b \in IncreasingSeqs(MaxBounds) }
    \cup { [NoBuckets EXCEPT !.LinearBuckets =
                << [Offset |-> o, Width |-> w, NumFiniteBuckets |-> k] >>] :
            o \in { 0, 1 }, w \in { 1, 2 }, k \in 0..MaxFinite }
    \cup { [NoBuckets EXCEPT !.ExponentialBuckets =
                << [Scale |-> c, GrowthFactor |-> g, NumFiniteBuckets |-> k] >>] :
            c \in { 1, 3 }, g \in { 2 }, k \in 0..MaxFinite }
    \cup { NoBuckets }

\* The bucket count arrays: up to MaxCounts counts.
BucketCountsSet == UNION { [1..n -> { 1, 2 }] : n \in 0..MaxCounts }

InitHist ==
    /\ aggregateDeltas = FALSE
    /\ dropDelegated = FALSE
    /\ metricsIngestDelay = FALSE
    /\ opts = NoOptions
    /\ cacheMode = NewDescriptorCache(opts).mode
    /\ listing = [p \in Prefixes |-> << >>]
    /\ CollectorNew
    /\ TSIdle
    /\ CacheIdle
    /\ CallIdle
    /\ PageIdle
    /\ histogram = << >>
    /\ \E o \in BucketOptionsSet : \E c \in BucketCountsSet :
          dist = << [BucketOptions |-> o, BucketCounts |-> c] >>

\* The call generateHistogramBuckets(dist).
HistBuild ==
    /\ histogram = << >>
    /\ histogram' = << generateHistogramBuckets(dist[1]) >>
    /\ UNCHANGED << aggregateDeltas, dropDelegated, counterStore,
                    histogramStore, ch, tsVars, orchVars, dist, cacheVars,
                    callVars, pageVars >>

NextHist == HistBuild

SpecHist == InitHist /\ [][NextHist]_vars

(* ------------- googleDescriptorCache specification (SpecCache) -------- *)
\* The keys of the calls: two whose first path segment contains
\* googleapis.com, one without it, one with it in the second segment only.
CacheKeys ==
    { << "compute.googleapis.com" >>, << "compute.googleapis.com", "a" >>,
      << "custom" >>, << "custom", "googleapis.com" >> }

\* The descriptor lists of the Store calls.
CacheData ==
    { << Descriptor(<< "m" >>, "P", "none") >>,
      << Descriptor(<< "m" >>, "P", "none"),
         Descriptor(<< "n" >>, "Q", "none") >> }

\* A collector not asked to scrape, no function called.
Unused ==
    /\ aggregateDeltas = FALSE
    /\ dropDelegated = FALSE
    /\ metricsIngestDelay = FALSE
    /\ opts = NoOptions
    /\ cacheMode = NewDescriptorCache(opts).mode
    /\ listing = [p \in Prefixes |-> << >>]
    /\ CollectorNew
    /\ TSIdle

InitCache == Unused /\ FnIdle

\* googleDescriptorCache.Store(key, data), and descriptorCache.Store(key,
\* data) on the other cache.
GoogleStore(key, data) ==
    /\ cacheCalls < MaxCacheCalls
    /\ cacheCalls' = cacheCalls + 1
    /\ gCache' = CacheStore("google", gCache, key, data, cacheClock, CacheTTL)
    /\ plainCache' =
          CacheStore("ttl", plainCache, key, data, cacheClock, CacheTTL)
    /\ lookedUp' = << >>
    /\ UNCHANGED << aggregateDeltas, dropDelegated, counterStore,
                    histogramStore, ch, tsVars, orchVars, histVars, callVars,
                    pageVars,
                    cacheClock >>

\* googleDescriptorCache.Lookup(key), and descriptorCache.Lookup(key) on the
\* other cache.
GoogleLookup(key) ==
    /\ cacheCalls < MaxCacheCalls
    /\ cacheCalls' = cacheCalls + 1
    /\ lookedUp' =
          << [key    |-> key,
              google |-> CacheLookup("google", gCache, key, cacheClock),
              plain  |-> CacheLookup("ttl", plainCache, key, cacheClock)] >>
    /\ UNCHANGED << aggregateDeltas, dropDelegated, counterStore,
                    histogramStore, ch, tsVars, orchVars, histVars, callVars,
                    pageVars,
                    gCache, plainCache, cacheClock >>

\* Time passes.
CacheTick ==
    /\ cacheClock < MaxClock
    /\ cacheClock' = cacheClock + 1
    /\ UNCHANGED << aggregateDeltas, dropDelegated, counterStore,
                    histogramStore, ch, tsVars, orchVars, histVars, callVars,
                    pageVars,
                    gCache, plainCache, cacheCalls, lookedUp >>

NextCache ==
    \/ \E key \in CacheKeys, data \in CacheData : GoogleStore(key, data)
    \/ \E key \in CacheKeys : GoogleLookup(key)
    \/ CacheTick

SpecCache == InitCache /\ [][NextCache]_vars

(* ------------- time-series call specification (SpecCall) -------------- *)
\* The metric types of the descriptors: a type, a type it is a prefix of,
\* and a type under another prefix.
CallTypes ==
    { << "compute.googleapis.com", "a" >>,
      << "compute.googleapis.com", "a", "x" >>,
      << "custom", "c" >> }

\* c.metricsFilters entries.
FilterSet ==
    { [TargetedMetricPrefix |-> << "compute.googleapis.com" >>,
       FilterQuery          |-> << "q1" >>],
      [TargetedMetricPrefix |-> << "compute.googleapis.com", "a" >>,
       FilterQuery          |-> << "q2" >>],
      [TargetedMetricPrefix |-> << "custom" >>,
       FilterQuery          |-> << "q3" >>] }

\* c.metricsAggregationConfigs entries.
AggregationSet ==
    { [TargetedMetricPrefix |-> << "compute.googleapis.com" >>,
       AlignmentPeriod      |-> "60s",
       CrossSeriesReducer   |-> "REDUCE_SUM",
       GroupByFields        |-> << "resource.labels.zone" >>,
       PerSeriesAligner     |-> "ALIGN_MEAN"],
      [TargetedMetricPrefix |-> << "compute.googleapis.com", "a" >>,
       AlignmentPeriod      |-> "300s",
       CrossSeriesReducer   |-> "REDUCE_MAX",
       GroupByFields        |-> << >>,
       PerSeriesAligner     |-> "ALIGN_MAX"],
      [TargetedMetricPrefix |-> << "custom" >>,
       AlignmentPeriod      |-> "60s",
       CrossSeriesReducer   |-> "REDUCE_NONE",
       GroupByFields        |-> << >>,
       PerSeriesAligner     |-> "ALIGN_RATE"] }

\* The lists of at most MaxConfigs elements of a set.
ListsOf(S) == UNION { [1..n -> S] : n \in 0..MaxConfigs }

\* The collectors of the call specification.
CallCollectors ==
    { CollectorOf([NoOptions EXCEPT !.RequestOffset = off,
                                    !.ExtraFilters = fs,
                                    !.MetricAggregationConfigs = as],
                  drop, delay) :
        off \in { 0, 1 }, fs \in ListsOf(FilterSet),
        as \in ListsOf(AggregationSet), drop \in BOOLEAN, delay \in BOOLEAN }

InitCall ==
    /\ Unused
    /\ HistIdle
    /\ CacheIdle
    /\ PageIdle
    /\ listCall = << >>
    /\ \E c \in CallCollectors, type \in CallTypes,
          delay \in { "none", "", "60s", "1 fortnight" } :
          callArgs = << [c      |-> c,
                         md     |-> Descriptor(type, "P", delay),
                         window |-> QueryWindow(100, c)] >>

\* A descriptor goroutine builds its call.
CallBuild ==
    /\ listCall = << >>
    /\ listCall' = << NewTimeSeriesListCall(callArgs[1].c, callArgs[1].md,
                                            callArgs[1].window) >>
    /\ UNCHANGED << aggregateDeltas, dropDelegated, counterStore,
                    histogramStore, ch, tsVars, orchVars, histVars, cacheVars,
                    pageVars, callArgs >>

NextCall == CallBuild

SpecCall == InitCall /\ [][NextCall]_vars

(* ------------- whole-page translation specification (SpecPage) ------- *)
\* The series of the pages: two scalar series and a distribution that are
\* translated; a series whose system labels do not decode; series of an
\* unrecognized value type (with a point and without), of an unrecognized
\* metric kind, and with a distribution of no recognized variant; series
\* with a malformed interval end (alone, and after a well-formed one).
PageSeriesSet ==
    { [BaseSeries EXCEPT !.Resource = [Labels |-> << <<"zone", "x">> >>]],
      [BaseSeries EXCEPT !.Points = << Pt(Timestamps[2], 7) >>,
                         !.MetricKind = "CUMULATIVE",
                         !.ValueType = "DOUBLE"],
      [BaseSeries EXCEPT !.Points = << Pt(Timestamps[1], 3) >>,
                         !.ValueType = "DISTRIBUTION"],
      [BaseSeries EXCEPT !.Points = << Pt(Timestamps[3], 1) >>,
                         !.Metric = [Labels |-> << <<"zone", "m">> >>],
                         !.Resource = [Labels |-> << <<"host", "r">> >>],
                         !.Metadata =
                            << [SystemLabels |->
                                  << [valid |-> FALSE, labels |-> << >>] >>] >>],
      [BaseSeries EXCEPT !.ValueType = "STRING"],
      [BaseSeries EXCEPT !.ValueType = "STRING", !.Points = << >>],
      [BaseSeries EXCEPT !.MetricKind = "METRIC_KIND_UNSPECIFIED"],
      [BaseSeries EXCEPT !.Points = << Pt(Timestamps[1], 5) >>,
                         !.ValueType = "DISTRIBUTION"],
      [BaseSeries EXCEPT !.Points = << Pt("yesterday", 4) >>],
      [BaseSeries EXCEPT !.Points = << Pt(Timestamps[1], 1),
                                       Pt("yesterday", 4) >>] }

\* The pages: at most MaxPage series of PageSeriesSet, in any order.
Pages ==
    { TSPage(series, "") :
        series \in UNION { [1..n -> PageSeriesSet] : n \in 0..MaxPage } }

InitPage ==
    /\ aggregateDeltas \in BOOLEAN
    /\ dropDelegated \in BOOLEAN
    /\ metricsIngestDelay = FALSE
    /\ opts = NoOptions
    /\ cacheMode = NewDescriptorCache(opts).mode
    /\ listing = [p \in Prefixes |-> << >>]
    /\ CollectorNew
    /\ TSIdle
    /\ HistIdle
    /\ CacheIdle
    /\ CallIdle
    /\ pageRes = << >>
    /\ \E page \in Pages : pageArg = << page >>

\* reportTimeSeriesMetrics(page, metricDescriptor, ch, begun).
PageTranslate ==
    /\ pageRes = << >>
    /\ \E r \in { reportTimeSeriesMetrics(
                      [md            |-> TSDescriptor,
                       dropDelegated |-> dropDelegated,
                       aggDeltas     |-> aggregateDeltas],
                      pageArg[1],
                      [counterStore   |-> counterStore,
                       histogramStore |-> histogramStore]) } :
          /\ pageRes' = << [outcome |-> r.outcome, sent |-> r.st.sent] >>
          /\ ch' = r.st.sent
          /\ counterStore' = r.st.counterStore
          /\ histogramStore' = r.st.histogramStore
    /\ UNCHANGED << aggregateDeltas, dropDelegated, tsVars, orchVars,
                    histVars, cacheVars, callVars, pageArg >>

NextPage == PageTranslate

SpecPage == InitPage /\ [][NextPage]_vars

(* ---------------- orchestrator specification (Spec) ------------------ *)
Init ==
    /\ aggregateDeltas = FALSE
    /\ dropDelegated = FALSE
    /\ metricsIngestDelay \in BOOLEAN
    /\ opts \in CollectorOptions
    /\ cacheMode = NewDescriptorCache(opts).mode
    /\ listing \in { l \in [Prefixes -> UNION { ListingsOf(p) : p \in Prefixes }] :
                       \A p \in Prefixes : l[p] \in ListingsOf(p) }
    /\ CollectorNew
    /\ TSIdle
    /\ FnIdle

\* An error value: where it arose.
Error(kind, prefix, type) == [kind |-> kind, prefix |-> prefix, type |-> type]

\* metricDescriptorsFunction(descriptors) up to wg.Wait(): the descriptors
\* collapse by type, errChannel is made, one goroutine per unique descriptor
\* is started.
StartDescriptors(prefix, descriptors) ==
    LET uniqueDescriptors == UniqueDescriptors(<< >>, descriptors)
    IN  /\ units' = [units EXCEPT ![prefix] =
                        [t \in DOMAIN uniqueDescriptors |->
                            [pc         |-> "start",
                             md         |-> uniqueDescriptors[t],
                             window     |-> QueryWindow(now,
                                                CollectorOf(opts, dropDelegated,
                                                            metricsIngestDelay)),
                             call       |-> << >>,
                             pageToken  |-> "",
                             tokens     |-> << >>,
                             translated |-> 0,
                             last       |-> "none",
                             pages      |-> 0]]]
        /\ pErrChannel' = [pErrChannel EXCEPT ![prefix] = << >>]
        /\ started' = started (+)
                        SetToBag({ << prefix, t >> : t \in DOMAIN uniqueDescriptors })
        /\ pPc' = [pPc EXCEPT ![prefix] = "page"]

\* Collect up to wg.Wait() of reportMonitoringMetrics: begun is taken, the
\* scrape-level errChannel is made, one goroutine per prefix is started.
\* The clock has advanced since the last Collect.
CollectBegin ==
    /\ collectPc \in { "idle", "done" }
    /\ scrapesTotal < MaxScrapes
    /\ \E d \in { 1, CacheTTL + 1 } : now' = now + d
    /\ listRequests' = [p \in Prefixes |-> 0]
    /\ tsRequests' = 0
    /\ apiCallsBegun' = apiCallsTotal
    /\ collectPc' = "running"
    /\ pPc' = [p \in Prefixes |-> "lookup"]
    /\ pHit' = [p \in Prefixes |-> FALSE]
    /\ pIdx' = [p \in Prefixes |-> 0]
    /\ pAcc' = [p \in Prefixes |-> << >>]
    /\ pErrChannel' = [p \in Prefixes |-> << >>]
    /\ units' = [p \in Prefixes |-> << >>]
    /\ errChannel' = << >>
    /\ gathered' = EmptyBag
    /\ started' = EmptyBag
    /\ reported' = {}
    /\ listFailed' = {}
    /\ scrapeErr' = Nil
    /\ ch' = << >>
    /\ UNCHANGED << configVars, fnVars, counterStore, histogramStore, tsVars,
                    descriptorCache, apiCallsTotal, scrapesTotal,
                    scrapeErrorsTotal, lastScrapeError >>

\* A prefix goroutine consults the cache: on a hit it calls
\* metricDescriptorsFunction(cached), on a miss it starts listing.
PrefixLookup(prefix) ==
    /\ collectPc = "running"
    /\ pPc[prefix] = "lookup"
    /\ LET cached == CacheLookup(cacheMode, descriptorCache, prefix, now)
       IN  IF cached # << >>
           THEN /\ pHit' = [pHit EXCEPT ![prefix] = TRUE]
                /\ StartDescriptors(prefix, cached)
           ELSE /\ pPc' = [pPc EXCEPT ![prefix] = "list"]
                /\ UNCHANGED << pHit, units, pErrChannel, started >>
    /\ UNCHANGED << configVars, fnVars, counterStore, histogramStore, ch, tsVars, now,
                    descriptorCache, collectPc, pIdx, pAcc, errChannel,
                    apiCallsTotal, scrapesTotal, scrapeErrorsTotal,
                    lastScrapeError, gathered, reported, listFailed,
                    scrapeErr, listRequests, tsRequests, apiCallsBegun >>

\* The end of a prefix goroutine on the miss path: Pages has returned err
\* (nil or an error), the error is sent, the accumulated list is stored.
PagesReturned(prefix, err, acc) ==
    /\ err # Nil => Len(errChannel) < ErrChannelCap(Len(MetricsTypePrefixes))
    /\ errChannel' = IF err # Nil THEN Append(errChannel, err[1]) ELSE errChannel
    /\ descriptorCache' =
           CacheStore(cacheMode, descriptorCache, prefix, acc, now,
                      NewDescriptorCache(opts).ttl)
    /\ pPc' = [pPc EXCEPT ![prefix] = "done"]

\* One request of MetricDescriptors.List(...).Pages: it fails, or the next
\* page arrives and the callback counts the call, appends the page to cache
\* and calls metricDescriptorsFunction on it.
ListRequest(prefix) ==
    /\ collectPc = "running"
    /\ pPc[prefix] = "list"
    /\ listRequests' = [listRequests EXCEPT ![prefix] = @ + 1]
    /\ \/ /\ PagesReturned(prefix, << Error("list", prefix, << >>) >>,
                           pAcc[prefix])
          /\ reported' = reported \cup { Error("list", prefix, << >>) }
          /\ listFailed' = listFailed \cup { prefix }
          /\ UNCHANGED << apiCallsTotal, pIdx, pAcc, units, pErrChannel,
                          started >>
       \/ /\ pIdx[prefix] < Len(listing[prefix])
          /\ LET r == listing[prefix][pIdx[prefix] + 1]
             IN  /\ apiCallsTotal' = apiCallsTotal + 1
                 /\ pAcc' = [pAcc EXCEPT ![prefix] = @ \o r]
                 /\ pIdx' = [pIdx EXCEPT ![prefix] = @ + 1]
                 /\ StartDescriptors(prefix, r)
          /\ UNCHANGED << errChannel, descriptorCache, reported, listFailed >>
    /\ UNCHANGED << configVars, fnVars, counterStore, histogramStore, ch, tsVars, now,
                    collectPc, pHit, scrapesTotal, scrapeErrorsTotal,
                    lastScrapeError, gathered, scrapeErr, tsRequests,
                    apiCallsBegun >>

\* A descriptor goroutine up to its request loop: it builds its call from
\* the descriptor and its copies of startTime and endTime; a malformed
\* ingest delay is sent as the error of the unit, which returns.
UnitStart(prefix, type) ==
    /\ collectPc = "running"
    /\ pPc[prefix] = "page"
    /\ type \in DOMAIN units[prefix]
    /\ units[prefix][type].pc = "start"
    /\ LET u    == units[prefix][type]
           call == NewTimeSeriesListCall(
                       CollectorOf(opts, dropDelegated, metricsIngestDelay),
                       u.md, u.window)
           err  == Error("ingestDelay", prefix, type)
       IN  IF call.err
           THEN /\ Len(pErrChannel[prefix]) <
                       ErrChannelCap(Cardinality(DOMAIN units[prefix]))
                /\ pErrChannel' = [pErrChannel EXCEPT ![prefix] = Append(@, err)]
                /\ reported' = reported \cup { err }
                /\ units' = [units EXCEPT ![prefix][type].pc = "done",
                                          ![prefix][type].last = "ingestDelayError"]
           ELSE /\ units' = [units EXCEPT ![prefix][type].pc = "fetch",
                                          ![prefix][type].call = << call >>]
                /\ UNCHANGED << pErrChannel, reported >>
    /\ UNCHANGED << configVars, fnVars, counterStore, histogramStore, ch, tsVars, now,
                    descriptorCache, collectPc, pPc, pHit, pIdx, pAcc,
                    errChannel, apiCallsTotal, scrapesTotal, scrapeErrorsTotal,
                    lastScrapeError, gathered, started, listFailed, scrapeErr,
                    listRequests, tsRequests, apiCallsBegun >>

\* The bag of the elements of a sequence.
BagOfSeq(seq) ==
    [x \in { seq[i] : i \in 1..Len(seq) } |->
        Cardinality({ i \in 1..Len(seq) : seq[i] = x })]

\* One iteration of the request loop of a descriptor goroutine: the call is
\* counted and sent with the page token it carries; the request fails, or
\* returns no page, or returns the page the token stands for, which is
\* translated; the loop breaks, or the call takes the next-page token.
UnitFetch(prefix, type) ==
    /\ collectPc = "running"
    /\ pPc[prefix] = "page"
    /\ type \in DOMAIN units[prefix]
    /\ units[prefix][type].pc = "fetch"
    /\ apiCallsTotal' = apiCallsTotal + 1
    /\ tsRequests' = tsRequests + 1
    /\ \E response \in { "error", "nil", "page" } :
       \E page \in { TSResponse(type, units[prefix][type].pageToken) } :
       \E r \in { IF response = "page"
                  THEN reportTimeSeriesMetrics(
                           [md            |-> units[prefix][type].md,
                            dropDelegated |-> dropDelegated,
                            aggDeltas     |-> aggregateDeltas],
                           page,
                           [counterStore   |-> counterStore,
                            histogramStore |-> histogramStore])
                  ELSE [outcome |-> "none",
                        st |-> [sent           |-> << >>,
                                counterStore   |-> counterStore,
                                histogramStore |-> histogramStore]] } :
          LET u       == units[prefix][type]
              outcome == CASE response = "error"  -> "requestError"
                           [] response = "nil"    -> "nilPage"
                           [] r.outcome = "error" -> "translateError"
                           [] r.outcome = "panic" -> "panic"
                           [] OTHER               -> "ok"
              breaks  == LoopBreaks(outcome, page)
              err     == Error(IF outcome = "requestError" THEN "timeSeries"
                               ELSE "translate", prefix, type)
          IN  /\ ch' = r.st.sent
              /\ gathered' = gathered (+) BagOfSeq(r.st.sent)
              /\ counterStore' = r.st.counterStore
              /\ histogramStore' = r.st.histogramStore
              /\ IF outcome \in { "requestError", "translateError" }
                 THEN /\ Len(pErrChannel[prefix]) <
                             ErrChannelCap(Cardinality(DOMAIN units[prefix]))
                      /\ pErrChannel' =
                             [pErrChannel EXCEPT ![prefix] = Append(@, err)]
                      /\ reported' = reported \cup { err }
                 ELSE UNCHANGED << pErrChannel, reported >>
              /\ units' = [units EXCEPT ![prefix][type] =
                    [u EXCEPT
                       !.pc         = IF outcome = "panic" THEN "crashed"
                                      ELSE IF breaks THEN "done" ELSE "fetch",
                       !.tokens     = Append(@, u.pageToken),
                       !.translated = IF response = "page" THEN @ + 1 ELSE @,
                       !.pages      = IF outcome = "ok" THEN @ + 1 ELSE @,
                       !.last       = IF outcome = "ok" /\ ~breaks THEN "more"
                                      ELSE IF outcome = "ok" THEN "lastPage"
                                      ELSE outcome,
                       !.pageToken  = IF outcome = "ok" /\ ~breaks
                                      THEN page.NextPageToken ELSE @]]
    /\ UNCHANGED << configVars, fnVars, tsVars, now, descriptorCache, collectPc, pPc,
                    pHit, pIdx, pAcc, errChannel, scrapesTotal,
                    scrapeErrorsTotal, lastScrapeError, started, listFailed,
                    scrapeErr, listRequests, apiCallsBegun >>

\* metricDescriptorsFunction from wg.Wait() on: every descriptor goroutine
\* is done, errChannel is closed and its first error (or nil) returned.  On
\* the cache path the prefix goroutine sends the error and ends; on the
\* listing path the callback returns it to Pages, which returns on an error
\* or on an empty next-page token and requests the next page otherwise.
PageDone(prefix) ==
    /\ collectPc = "running"
    /\ pPc[prefix] = "page"
    /\ AllDone({ units[prefix][t].pc : t \in DOMAIN units[prefix] })
    /\ LET err == FirstError(pErrChannel[prefix])
       IN  IF pHit[prefix]
           THEN /\ err # Nil => Len(errChannel) < ErrChannelCap(Len(MetricsTypePrefixes))
                /\ errChannel' = IF err # Nil THEN Append(errChannel, err[1])
                                 ELSE errChannel
                /\ pPc' = [pPc EXCEPT ![prefix] = "done"]
                /\ UNCHANGED descriptorCache
           ELSE IF err # Nil \/ pIdx[prefix] = Len(listing[prefix])
           THEN PagesReturned(prefix, err, pAcc[prefix])
           ELSE /\ pPc' = [pPc EXCEPT ![prefix] = "list"]
                /\ UNCHANGED << errChannel, descriptorCache >>
    /\ UNCHANGED << configVars, fnVars, counterStore, histogramStore, ch, tsVars, now,
                    collectPc, pHit, pIdx, pAcc, pErrChannel, units,
                    apiCallsTotal, scrapesTotal, scrapeErrorsTotal,
                    lastScrapeError, gathered, started, reported, listFailed,
                    scrapeErr, listRequests, tsRequests, apiCallsBegun >>

\* reportMonitoringMetrics from wg.Wait() on, and the rest of Collect: every
\* prefix goroutine is done, errChannel is closed and its first error (or
\* nil) returned; Collect counts the error and the scrape, sets the gauges
\* and sends the meta-metrics.
CollectFinish ==
    /\ collectPc = "running"
    /\ AllDone({ pPc[p] : p \in Prefixes })
    /\ LET err  == FirstError(errChannel)
           errs == IF err # Nil THEN scrapeErrorsTotal + 1 ELSE scrapeErrorsTotal
           flag == IF err # Nil THEN 1 ELSE 0
           meta == MetaMetrics(errs, apiCallsTotal, scrapesTotal + 1, flag, now)
       IN  /\ scrapeErr' = err
           /\ scrapeErrorsTotal' = errs
           /\ scrapesTotal' = scrapesTotal + 1
           /\ lastScrapeError' = flag
           /\ ch' = meta
           /\ gathered' = gathered (+)
                            SetToBag({ meta[i] : i \in 1..Len(meta) })
    /\ collectPc' = "done"
    /\ UNCHANGED << configVars, fnVars, counterStore, histogramStore, tsVars, now,
                    descriptorCache, pPc, pHit, pIdx, pAcc, pErrChannel, units,
                    errChannel, apiCallsTotal, started, reported, listFailed,
                    listRequests, tsRequests, apiCallsBegun >>

Types == UNION { { d.Type : d \in DescriptorsOf(p) } : p \in Prefixes }

Next ==
    \/ CollectBegin
    \/ \E prefix \in Prefixes : PrefixLookup(prefix)
    \/ \E prefix \in Prefixes : ListRequest(prefix)
    \/ \E prefix \in Prefixes, type \in Types : UnitStart(prefix, type)
    \/ \E prefix \in Prefixes, type \in Types : UnitFetch(prefix, type)
    \/ \E prefix \in Prefixes : PageDone(prefix)
    \/ CollectFinish

Spec == Init /\ [][Next]_vars

(* ====================== claims on the orchestrator ==================== *)
\* The metric types the API lists under a prefix, over all pages.
TypesListed(prefix) ==
    UNION { { listing[prefix][i][k].Type : k \in 1..Len(listing[prefix][i]) } :
            i \in 1..Len(listing[prefix]) }

\* C1: within one scrape at most one time-series fetch unit is started per
\* metric type of a prefix, wherever the descriptors of the type occur: in
\* one page of the listing, in different pages of it, or in the cached list.
C1_OneFetchPerType ==
    \A prefix \in Prefixes : \A type \in Types :
        CopiesIn(<< prefix, type >>, started) <= 1

\* C2: when a scrape has ended in which nothing but time-series requests
\* failed, for every prefix whose descriptor listing was requested the fetch
\* unit of every type the API lists under the prefix has been started (and
\* so, the scrape having ended, has finished), whether or not the fetch of
\* another descriptor failed.
C2_EveryUnitCompletes ==
    (collectPc = "done" /\ \A e \in reported : e.kind = "timeSeries") =>
        \A prefix \in Prefixes :
            (~pHit[prefix] /\ prefix \notin listFailed) =>
                \A type \in TypesListed(prefix) :
                    CopiesIn(<< prefix, type >>, started) >= 1

\* C3: when a scrape has ended, reportMonitoringMetrics has returned an
\* error if and only if some unit reported one (a list request, an ingest
\* delay, a time-series request or a translation), the error returned is
\* one of those reported, and the last-scrape-error gauge is 1 if an error
\* was returned and 0 otherwise.
C3_ErrorCollapse ==
    collectPc = "done" =>
        /\ (scrapeErr # Nil) <=> (reported # {})
        /\ scrapeErr # Nil => scrapeErr[1] \in reported
        /\ lastScrapeError = IF scrapeErr # Nil THEN 1 ELSE 0

\* C3 witness: a scrape has ended in which units of both prefixes reported
\* errors, and one of them was returned.
C3_Witness ==
    /\ collectPc = "done"
    /\ scrapeErr # Nil
    /\ \A prefix \in Prefixes : \E e \in reported : e.prefix = prefix
    /\ \E e \in reported : e.kind = "timeSeries"
    /\ lastScrapeError = 1

IsMeta(s) == s.name[1] = "stackdriver"

MetaNames ==
    { "scrape_errors_total", "api_calls_total", "scrapes_total",
      "last_scrape_error", "last_scrape_timestamp",
      "last_scrape_duration_seconds" }

\* The samples of the scrape so far that are meta-metrics.
MetaGathered == { s \in BagToSet(gathered) : IsMeta(s) }

\* The value of the one point of each series of page k of a type.
PageValues(type, k) ==
    LET ts == TimeSeriesOf(type)[k].TimeSeries
    IN  { ts[i].Points[1].Value.Int64Value : i \in 1..Len(ts) }

\* C4: no meta-metric is emitted while the scrape runs; when the scrape has
\* ended, each of the six meta-metrics has been emitted exactly once, every
\* prefix unit and every descriptor unit is finished, and every page a
\* descriptor unit translated has its samples emitted, whatever other units
\* reported.
C4_MetaMetricsAfterAllUnits ==
    /\ collectPc # "done" => MetaGathered = {}
    /\ collectPc = "done" =>
        /\ { s.name[3] : s \in MetaGathered } = MetaNames
        /\ Cardinality(MetaGathered) = Cardinality(MetaNames)
        /\ \A s \in MetaGathered : CopiesIn(s, gathered) = 1
        /\ \A prefix \in Prefixes :
            /\ pPc[prefix] = "done"
            /\ \A type \in DOMAIN units[prefix] :
                /\ units[prefix][type].pc = "done"
                /\ \A k \in 1..units[prefix][type].pages :
                    \A v \in PageValues(type, k) :
                        \E s \in BagToSet(gathered) :
                            s.name = type /\ s.value = v

\* C4 witness: a scrape has ended with an error in which one descriptor unit
\* of a prefix failed and another unit of the same prefix translated both
\* its pages.
C4_Witness ==
    /\ collectPc = "done"
    /\ scrapeErr # Nil
    /\ Cardinality(MetaGathered) = Cardinality(MetaNames)
    /\ \E prefix \in Prefixes :
        \E t1, t2 \in DOMAIN units[prefix] :
            /\ t1 # t2
            /\ units[prefix][t1].pages = 2
            /\ \E e \in reported : e.prefix = prefix /\ e.type = t2
            /\ \A k \in 1..2 : \A v \in PageValues(t1, k) :
                \E s \in BagToSet(gathered) : s.name = t1 /\ s.value = v

\* The entry the inner cache holds for a prefix with a non-empty list:
\* none, or one.
StoredFor(prefix) ==
    IF prefix \in DOMAIN descriptorCache /\ descriptorCache[prefix].data # << >>
    THEN << descriptorCache[prefix] >> ELSE << >>

\* The types of a list of descriptors.
TypesOf(descriptors) == { descriptors[i].Type : i \in 1..Len(descriptors) }

\* C13: a prefix goroutine whose lookup happens before the expiry of the
\* list stored for its prefix works from that list (its descriptor units are
\* those of the stored types) and no descriptor-list request is sent for
\* the prefix during the scrape; one whose lookup happens after the expiry
\* goes on to list the descriptors, and has sent a list request when it is
\* done.
C13_CacheTTL ==
    /\ [](\A prefix \in Prefixes :
            /\ pHit[prefix] => listRequests[prefix] = 0
            /\ (~pHit[prefix] /\ pPc[prefix] = "done") =>
                    listRequests[prefix] >= 1)
    /\ [][\A prefix \in Prefixes :
            (pPc[prefix] = "lookup" /\ pPc'[prefix] # "lookup") =>
                LET e == StoredFor(prefix)
                IN  /\ (e # << >> /\ now < e[1].expiry) =>
                            /\ pHit'[prefix]
                            /\ pPc'[prefix] = "page"
                            /\ DOMAIN units'[prefix] = TypesOf(e[1].data)
                    /\ (e # << >> /\ now > e[1].expiry) =>
                            /\ ~pHit'[prefix]
                            /\ pPc'[prefix] = "list"]_vars

\* C13 witness: a second scrape has ended in which a prefix worked from the
\* list stored by the first: no list request for it, time-series requests
\* only.
C13_Witness ==
    /\ collectPc = "done"
    /\ scrapesTotal = 2
    /\ \E prefix \in Prefixes :
        /\ pHit[prefix]
        /\ StoredFor(prefix) # << >>
        /\ listRequests[prefix] = 0
        /\ \E type \in DOMAIN units[prefix] :
              Len(units[prefix][type].tokens) >= 1

\* C14: with a zero DescriptorCacheTTL, whatever DescriptorCacheOnlyGoogle,
\* every lookup misses, so every prefix goroutine that is past its listing
\* has sent a descriptor-list request, and the errors of the scrape are
\* those of the API and the descriptors only.
C14_ZeroTTLDisablesCache ==
    opts.DescriptorCacheTTL = 0 =>
        /\ \A prefix \in Prefixes :
            /\ ~pHit[prefix]
            /\ CacheLookup(cacheMode, descriptorCache, prefix, now) = << >>
            /\ pPc[prefix] \in { "page", "done" } => listRequests[prefix] >= 1
        /\ \A e \in reported :
            e.kind \in { "list", "ingestDelay", "timeSeries", "translate" }

\* C14 witness: with a zero TTL and DescriptorCacheOnlyGoogle set, a second
\* scrape has ended without error and has listed every prefix.
C14_Witness ==
    /\ opts.DescriptorCacheTTL = 0
    /\ opts.DescriptorCacheOnlyGoogle
    /\ collectPc = "done"
    /\ scrapesTotal = 2
    /\ scrapeErr = Nil
    /\ \A prefix \in Prefixes : listRequests[prefix] >= 1

RECURSIVE SumListRequests(_)
\* The descriptor-list requests sent for the first n prefixes.
SumListRequests(n) ==
    IF n = 0 THEN 0
    ELSE listRequests[MetricsTypePrefixes[n]] + SumListRequests(n - 1)

\* C16: the API-call counter has grown, since the Collect began, by the
\* number of requests sent since: descriptor-list requests and time-series
\* requests, failed or not.
C16_ApiCallsCountRequests ==
    apiCallsTotal - apiCallsBegun =
        SumListRequests(Len(MetricsTypePrefixes)) + tsRequests

(* ====================== claims on the translator ======================= *)
\* The series and the result of the last loop iteration.
CurSeries == tsSeries[1]
CurRes == tsRes[1]
Translated == tsRes # << >>

\* The interval ends of a series all parse.
EndsParse(timeSeries) ==
    \A i \in 1..Len(timeSeries.Points) :
        ~TimeParse(timeSeries.Points[i].Interval.EndTime).err

\* The latest interval end among the points of a series.
LatestEnd(timeSeries) ==
    LET ends == { TimeParse(timeSeries.Points[i].Interval.EndTime).t :
                    i \in 1..Len(timeSeries.Points) }
    IN  CHOOSE t \in ends : \A u \in ends : u <= t

\* The points of a series whose interval end is the latest.
LatestPoints(timeSeries) ==
    { timeSeries.Points[i] : i \in
        { j \in 1..Len(timeSeries.Points) :
            TimeParse(timeSeries.Points[j].Interval.EndTime).t
                = LatestEnd(timeSeries) } }

\* The number a point stands for under a scalar value type.
ScalarOf(valueType, point) ==
    CASE valueType = "BOOL"   -> IF point.Value.BoolValue THEN 1 ELSE 0
      [] valueType = "INT64"  -> point.Value.Int64Value
      [] valueType = "DOUBLE" -> point.Value.DoubleValue

\* C5: for a series with at least one point, the value and the timestamp
\* handed on (and sent on ch when the value is not aggregated) are those of
\* the point with the latest interval end, whatever the order of the points.
C5_LatestPointWins ==
    (Translated /\ CurSeries.Points # << >> /\ CurRes.call # NoCall) =>
        LET c == CurRes.call[1]
        IN  /\ EndsParse(CurSeries)
            /\ c.reportTime = LatestEnd(CurSeries)
            /\ c.fn = "CollectNewConstMetric" =>
                 \E p \in LatestPoints(CurSeries) :
                     c.metricValue = ScalarOf(CurSeries.ValueType, p)
            /\ c.fn = "CollectNewConstHistogram" =>
                 \E p \in LatestPoints(CurSeries) :
                     c.dist = p.Value.DistributionValue
            /\ ~(CurSeries.MetricKind = "DELTA" /\ aggregateDeltas) =>
                 /\ Len(ch) = 1
                 /\ ch[1].reportTime = LatestEnd(CurSeries)
                 /\ c.fn = "CollectNewConstMetric" =>
                      ch[1].value = c.metricValue

\* C5 witness: points with ends t1, t3, t2 and values 1, 3, 2 expose 3.
C5_Witness ==
    /\ Translated
    /\ CurSeries.Points = << Pt(Timestamps[1], 1), Pt(Timestamps[3], 3),
                             Pt(Timestamps[2], 2) >>
    /\ Len(ch) = 1
    /\ ch[1].value = 3

\* C6 as claimed: translating a series without points calls no Collect
\* function and sends nothing on ch.
C6_EmptySeriesSkipped ==
    (Translated /\ CurSeries.Points = << >>) =>
        /\ CurRes.call = NoCall
        /\ ch = << >>

\* The key a label map holds (if any).
HasKey(labels, key) == \E i \in 1..Len(labels) : labels[i][1] = key
ValueAt(labels, key) ==
    labels[CHOOSE i \in 1..Len(labels) : labels[i][1] = key][2]

\* The decodable system labels of a series, else none.
SystemLabelsOf(timeSeries) ==
    IF /\ timeSeries.Metadata # << >>
       /\ timeSeries.Metadata[1].SystemLabels # << >>
       /\ timeSeries.Metadata[1].SystemLabels[1].valid
    THEN timeSeries.Metadata[1].SystemLabels[1].labels
    ELSE << >>

\* The label groups of a series in the order unit, metric, resource, system.
Groups(timeSeries) ==
    << << << "unit", TSDescriptor.Unit >> >>, timeSeries.Metric.Labels,
       timeSeries.Resource.Labels, SystemLabelsOf(timeSeries) >>

\* The first group that holds the key.
FirstGroup(timeSeries, key) ==
    CHOOSE g \in 1..4 :
        /\ HasKey(Groups(timeSeries)[g], key)
        /\ \A h \in 1..(g - 1) : ~HasKey(Groups(timeSeries)[h], key)

\* C7: the label keys start with unit and the descriptor's unit, hold no key
\* twice, hold exactly the keys of the four groups, each with the value of
\* the first group that has it and in the order of the groups; keys and
\* values have equal length.
C7_LabelOrderAndDedup ==
    Translated =>
        LET keys == CurRes.labelKeys
            vals == CurRes.labelValues
            g    == Groups(CurSeries)
        IN  /\ Len(keys) = Len(vals)
            /\ keys[1] = "unit"
            /\ vals[1] = TSDescriptor.Unit
            /\ \A i, j \in 1..Len(keys) : keys[i] = keys[j] => i = j
            /\ { keys[i] : i \in 1..Len(keys) }
                 = UNION { { g[n][i][1] : i \in 1..Len(g[n]) } : n \in 1..4 }
            /\ \A i \in 1..Len(keys) :
                 vals[i] = ValueAt(g[FirstGroup(CurSeries, keys[i])], keys[i])
            /\ \A i, j \in 1..Len(keys) :
                 i < j => FirstGroup(CurSeries, keys[i])
                            <= FirstGroup(CurSeries, keys[j])

\* C7 witness: a metric label and a resource label named unit, and a
\* project_id in two groups; the descriptor unit and the metric project_id
\* stay.
C7_Witness ==
    /\ Translated
    /\ HasKey(CurSeries.Metric.Labels, "project_id")
    /\ HasKey(CurSeries.Resource.Labels, "project_id")
    /\ HasKey(CurSeries.Resource.Labels, "unit")
    /\ HasKey(SystemLabelsOf(CurSeries), "zone")
    /\ Len(CurRes.labelKeys) = 3
    /\ CurRes.labelValues[1] = "By"

\* The project_id of the assembled labels differs from the configured
\* project (first group that has the key).
ForeignProject(timeSeries) ==
    /\ \E n \in 1..4 : HasKey(Groups(timeSeries)[n], "project_id")
    /\ ValueAt(Groups(timeSeries)[FirstGroup(timeSeries, "project_id")],
               "project_id") # ProjectID

\* A series that is translated to a scalar sample unless filtered.
PlainScalar(timeSeries) ==
    /\ timeSeries.Points # << >>
    /\ EndsParse(timeSeries)
    /\ timeSeries.MetricKind \in { "GAUGE", "DELTA", "CUMULATIVE" }
    /\ timeSeries.ValueType \in { "BOOL", "INT64", "DOUBLE" }

\* C8: with drop-delegated-projects a series with a foreign project_id
\* makes no Collect call and sends nothing; a series with the configured
\* project_id or none, and every series when the toggle is off, is not
\* dropped, and is handed on when it is a plain scalar series.
C8_DelegatedProjectFilter ==
    Translated =>
        IF dropDelegated /\ ForeignProject(CurSeries) /\ EndsParse(CurSeries)
        THEN /\ CurRes.outcome = "dropped"
             /\ CurRes.call = NoCall
             /\ ch = << >>
        ELSE /\ CurRes.outcome # "dropped"
             /\ PlainScalar(CurSeries) => CurRes.outcome = "const"

\* C8 witness: the toggle is on and a series of project Q is dropped.
C8_Witness ==
    /\ Translated
    /\ dropDelegated
    /\ HasKey(CurSeries.Metric.Labels, "project_id")
    /\ ValueAt(CurSeries.Metric.Labels, "project_id") = "Q"
    /\ CurRes.outcome = "dropped"

\* The exposition kind of a metric kind.
KindOf(metricKind, aggDeltas) ==
    CASE metricKind = "GAUGE"      -> "GaugeValue"
      [] metricKind = "CUMULATIVE" -> "CounterValue"
      [] metricKind = "DELTA"      ->
            IF aggDeltas THEN "CounterValue" ELSE "GaugeValue"
      [] OTHER                     -> "none"

\* C10: a scalar Collect call carries the exposition kind of the series'
\* own metric kind and the aggregate-deltas flag, so does the sample sent;
\* a series of any other metric kind makes no call and sends nothing.
C10_ExpositionKind ==
    Translated =>
        /\ KindOf(CurSeries.MetricKind, aggregateDeltas) = "none" =>
             CurRes.call = NoCall /\ ch = << >>
        /\ (CurRes.call # NoCall /\ CurRes.call[1].fn = "CollectNewConstMetric")
             => CurRes.call[1].metricValueType
                  = KindOf(CurSeries.MetricKind, aggregateDeltas)
        /\ \A i \in 1..Len(ch) :
             ch[i].valueType # "Histogram" =>
                 ch[i].valueType = KindOf(CurSeries.MetricKind, aggregateDeltas)

\* C10 witness: the second series of a page has an unrecognized metric
\* kind while metricValueType still holds the counter kind of the first; it
\* makes no call.
C10_Witness ==
    /\ Translated
    /\ tsCount = 2
    /\ CurSeries.MetricKind = "METRIC_KIND_UNSPECIFIED"
    /\ tsLoc.metricValueType = "CounterValue"
    /\ CurRes.call = NoCall

\* C10 witness of the mapping: a DELTA series sent as a gauge after a
\* counter series.
C10_DeltaGauge ==
    /\ Translated
    /\ tsCount = 2
    /\ CurSeries.MetricKind = "DELTA"
    /\ ~aggregateDeltas
    /\ Len(ch) = 1
    /\ ch[1].valueType = "GaugeValue"

(* ===================== claims on the delta store ====================== *)
RECURSIVE SumOf(_, _)
\* The sum of the values of a bag of observations.
SumOf(bag, S) ==
    IF S = {} THEN 0
    ELSE LET x == CHOOSE y \in S : TRUE
         IN  (x.value * CopiesIn(x, bag)) + SumOf(bag, S \ {x})

\* The sum of all DELTA values observed under a DeltaKey.
ObservedSum(key) ==
    SumOf(observed, { o \in BagToSet(observed) : o.key = key })

ObservedKeys == { o.key : o \in BagToSet(observed) }

\* The page has been translated to its end and Complete has run.
Completed == tsPc = "idle" /\ tsCalls > 0 /\ ~tsErr

\* C9: with aggregate-deltas the store holds, and Complete exposes exactly
\* once as a counter, the sum of all values observed under each DeltaKey;
\* without it the store stays empty and a DELTA series is sent with the
\* value of its own call as a gauge.
C9_DeltaRunningSum ==
    IF aggregateDeltas
    THEN /\ DOMAIN counterStore = ObservedKeys
         /\ \A k \in ObservedKeys : counterStore[k].value = ObservedSum(k)
         /\ Completed =>
              /\ \A k \in ObservedKeys :
                   Cardinality({ i \in 1..Len(ch) :
                       /\ { << ch[i].labelKeys[j], ch[i].labelValues[j] >> :
                              j \in 1..Len(ch[i].labelKeys) } = k.labels
                       /\ ch[i].valueType = "CounterValue"
                       /\ ch[i].value = ObservedSum(k) }) = 1
              /\ Len(ch) = Cardinality(ObservedKeys)
    ELSE /\ counterStore = << >>
         /\ (Translated /\ CurSeries.MetricKind = "DELTA"
                /\ CurRes.call # NoCall) =>
              /\ Len(ch) = 1
              /\ ch[1].valueType = "GaugeValue"
              /\ ch[1].value = CurRes.call[1].metricValue
              /\ CurSeries.Points # << >> =>
                   \E p \in LatestPoints(CurSeries) :
                       ch[1].value = p.Value.Int64Value

\* C9 witness: observations 5 and 7 under one DeltaKey in two successive
\* pages expose 12.
C9_Witness ==
    /\ aggregateDeltas
    /\ Completed
    /\ tsCalls = 2
    /\ tsCount = 1
    /\ \E k \in ObservedKeys :
         /\ observed = SetToBag({ [key |-> k, value |-> 5],
                                  [key |-> k, value |-> 7] })
         /\ Len(ch) = 1
         /\ ch[1].value = 12

\* C9 witness without aggregation: the second page exposes the raw 7.
C9_RawWitness ==
    /\ ~aggregateDeltas
    /\ tsCalls = 2
    /\ Translated
    /\ CurSeries.MetricKind = "DELTA"
    /\ Len(ch) = 1
    /\ ch[1].value = 7
    /\ observed # EmptyBag

(* ================= claims on generateHistogramBuckets ================= *)
HistDone == histogram # << >>
HistOpts == dist[1].BucketOptions
HistCounts == dist[1].BucketCounts

\* The boundaries of a bucket map: its keys.
Boundaries(buckets) == DOMAIN buckets

\* C11: explicit bounds b1..bn give the boundaries b1..bn and +Inf, n + 1
\* in all; linear (offset, width, k) gives offset + i*width for i = 0..k and
\* +Inf, k + 2 in all; with every recognized variant +Inf is a boundary and
\* the only unbounded one; with no recognized variant the result is an error
\* and no bucket map.
C11_BoundariesByVariant ==
    HistDone =>
        LET r  == histogram[1]
            bs == Boundaries(r.buckets)
        IN  /\ HistOpts.ExplicitBuckets # << >> =>
                LET b == HistOpts.ExplicitBuckets[1].Bounds
                IN  /\ ~r.err
                    /\ bs = { Fin(b[i]) : i \in 1..Len(b) } \cup { PosInf }
                    /\ Cardinality(bs) = Len(b) + 1
            /\ HistOpts.LinearBuckets # << >> =>
                LET lb == HistOpts.LinearBuckets[1]
                IN  /\ ~r.err
                    /\ bs = { Fin(lb.Offset + (i * lb.Width)) :
                                i \in 0..lb.NumFiniteBuckets } \cup { PosInf }
                    /\ Cardinality(bs) = lb.NumFiniteBuckets + 2
            /\ HistOpts # NoBuckets =>
                /\ PosInf \in bs
                /\ \A k \in bs : k.inf => k = PosInf
                /\ r.keys[Len(r.keys)] = PosInf
                /\ \A i \in 1..(Len(r.keys) - 1) : ~r.keys[i].inf
            /\ HistOpts = NoBuckets => (r.err /\ r.buckets = << >>)

\* C11 witness: the linear distribution offset 0, width 2, two finite
\* buckets has been built into the boundaries 0, 2, 4, +Inf.
C11_Witness ==
    /\ HistDone
    /\ HistOpts.LinearBuckets =
          << [Offset |-> 0, Width |-> 2, NumFiniteBuckets |-> 2] >>
    /\ Boundaries(histogram[1].buckets) = { Fin(0), Fin(2), Fin(4), PosInf }

RECURSIVE SumTo(_, _)
\* counts[1] + ... + counts[n], an index past the end contributing 0.
SumTo(counts, n) ==
    IF n = 0 THEN 0
    ELSE (IF n <= Len(counts) THEN counts[n] ELSE 0) + SumTo(counts, n - 1)

\* The count of boundary i is the sum of the source counts up to i, and the
\* counts do not decrease along the boundaries.
CumulativeCounts ==
    LET r == histogram[1]
    IN  /\ \A i \in 1..Len(r.keys) :
            r.buckets[r.keys[i]] = SumTo(HistCounts, i)
        /\ \A i \in 1..Len(r.keys) : \A j \in 1..Len(r.keys) :
            i <= j => r.buckets[r.keys[i]] <= r.buckets[r.keys[j]]

WantedShift(md) ==
    IF metricsIngestDelay /\ md.Metadata # << >>
       /\ md.Metadata[1].IngestDelay = "60s"
    THEN 60 ELSE 0

\* The descriptor declares a delay that is not a duration, and ingest delay
\* is enabled.
MalformedDelay(md) ==
    /\ metricsIngestDelay
    /\ md.Metadata # << >>
    /\ md.Metadata[1].IngestDelay \notin { "", "60s" }

\* The errors a descriptor unit has sent on the errChannel of its page.
SentBy(prefix, type) ==
    { i \in 1..Len(pErrChannel[prefix]) :
        pErrChannel[prefix][i].type = type }

\* C18: the call of every descriptor unit has the window end = now - offset,
\* start = end - interval, both shifted by the descriptor's own ingest delay
\* when ingest delay is enabled and the delay is not empty, so end - start
\* is the interval whatever the siblings' delays; a unit with a malformed
\* delay has sent exactly one error and made no request, and the page is not
\* over before each of its siblings has made a request.
C18_QueryWindow ==
    \A prefix \in Prefixes : \A type \in DOMAIN units[prefix] :
        LET u == units[prefix][type]
        IN  /\ u.call # << >> =>
                /\ ~MalformedDelay(u.md)
                /\ u.call[1].interval.endTime =
                      (now - opts.RequestOffset) - WantedShift(u.md)
                /\ u.call[1].interval.startTime =
                      u.call[1].interval.endTime - opts.RequestInterval
            /\ (u.pc # "start" /\ MalformedDelay(u.md)) =>
                /\ u.call = << >>
                /\ u.tokens = << >>
                /\ pPc[prefix] = "page" =>
                      Cardinality(SentBy(prefix, type)) = 1
            /\ (u.pc # "start" /\ ~MalformedDelay(u.md)) => u.call # << >>
            /\ (pPc[prefix] \notin { "page" } /\ ~MalformedDelay(u.md)) =>
                  u.tokens # << >>

\* C18 witness: two sibling units have built their calls, one with a window
\* shifted by its ingest delay and one with the window that is not shifted.
C18_Witness ==
    \E prefix \in Prefixes : \E t1, t2 \in DOMAIN units[prefix] :
        /\ units[prefix][t1].call # << >>
        /\ units[prefix][t2].call # << >>
        /\ units[prefix][t1].call[1].interval.endTime = (now - 1) - 60
        /\ units[prefix][t2].call[1].interval.endTime = now - 1

\* C18 witness of the malformed delay: the unit has sent its error and made
\* no request, and its sibling has made a request.
C18_MalformedWitness ==
    \E prefix \in Prefixes : \E t1, t2 \in DOMAIN units[prefix] :
        /\ units[prefix][t1].last = "ingestDelayError"
        /\ Cardinality(SentBy(prefix, t1)) = 1
        /\ units[prefix][t1].tokens = << >>
        /\ units[prefix][t2].tokens # << >>

\* The errors a prefix unit has sent on the errChannel of the scrape.
SentByPrefix(prefix) ==
    { i \in 1..Len(errChannel) : errChannel[i].prefix = prefix }

\* Some descriptor goroutine has panicked: the process is gone.
Crashed ==
    \E prefix \in Prefixes : \E type \in DOMAIN units[prefix] :
        units[prefix][type].pc = "crashed"

\* A step of a unit or of a barrier of the running scrape.
ScrapeStep ==
    \/ \E prefix \in Prefixes : PrefixLookup(prefix) \/ ListRequest(prefix)
                                   \/ PageDone(prefix)
    \/ \E prefix \in Prefixes, type \in Types :
          UnitStart(prefix, type) \/ UnitFetch(prefix, type)
    \/ CollectFinish

\* C19, in every state of a scrape: a descriptor unit has sent at most one
\* error on the errChannel of its page and a prefix unit at most one on the
\* errChannel of the scrape; while a unit is not done its channel has room
\* for a send; and while the scrape runs some unit or barrier can step, so
\* the scrape ends when the API calls have returned.
C19_State ==
    /\ \A prefix \in Prefixes :
          /\ Cardinality(SentByPrefix(prefix)) <= 1
          /\ (collectPc = "running" /\ pPc[prefix] # "done") =>
                Len(errChannel) < ErrChannelCap(Len(MetricsTypePrefixes))
          /\ pPc[prefix] = "page" =>
                \A type \in DOMAIN units[prefix] :
                    /\ Cardinality(SentBy(prefix, type)) <= 1
                    /\ units[prefix][type].pc # "done" =>
                          Len(pErrChannel[prefix]) <
                             ErrChannelCap(Cardinality(DOMAIN units[prefix]))
    /\ (collectPc = "running" /\ ~Crashed) => ENABLED ScrapeStep

\* C19, in every step: an error is sent on the errChannel of a page only
\* before its wait barrier is released (a unit of the page is not done), and
\* on the errChannel of the scrape only by a prefix unit that is not done.
C19_Step ==
    /\ \A prefix \in Prefixes :
          (pPc[prefix] = "page" /\ pPc'[prefix] = "page"
           /\ Len(pErrChannel'[prefix]) > Len(pErrChannel[prefix])) =>
              ~AllDone({ units[prefix][t].pc : t \in DOMAIN units[prefix] })
    /\ (collectPc = "running" /\ Len(errChannel') > Len(errChannel)) =>
          \E prefix \in Prefixes :
              /\ pPc[prefix] # "done"
              /\ pPc'[prefix] = "done"
              /\ errChannel' = Append(errChannel, errChannel'[Len(errChannel')])
              /\ errChannel'[Len(errChannel')].prefix = prefix

\* C19: in every interleaving of a scrape each unit sends at most one error,
\* no send blocks, no send follows the close of its channel, and the scrape
\* terminates.
C19_ErrorChannels == [](C19_State) /\ [][C19_Step]_vars

\* C19 witness: both units of a page have sent an error, and a prefix unit
\* has sent one on the errChannel of the scrape while the other still runs.
C19_Witness ==
    \E p1, p2 \in Prefixes :
        /\ collectPc = "running"
        /\ pPc[p1] = "page"
        /\ Len(pErrChannel[p1]) = 2
        /\ Cardinality(DOMAIN units[p1]) = 2
        /\ Len(errChannel) = 1
        /\ errChannel[1].prefix = p2

\* The outcomes after which the request loop of a unit is over.
Terminal == { "lastPage", "nilPage", "requestError", "translateError" }

\* C20, in every state of a unit: the first request carries no page token
\* and each later one the next-page token of the response before it; the
\* unit is done exactly when its last response had an empty next-page token,
\* was nil, failed or failed to translate, and goes on with the next-page
\* token otherwise; and every page received was translated once: as many
\* translations as requests, less the last request if it returned no page.
C20_State ==
    \A prefix \in Prefixes : \A type \in DOMAIN units[prefix] :
        LET u == units[prefix][type]
            n == Len(u.tokens)
        IN  /\ n >= 1 => u.tokens[1] = ""
            /\ \A i \in 2..n :
                  /\ u.tokens[i] # ""
                  /\ u.tokens[i] =
                        TSResponse(type, u.tokens[i - 1]).NextPageToken
            /\ n >= 1 =>
                  /\ u.last \in Terminal <=> u.pc = "done"
                  /\ u.last = "more" <=> u.pc = "fetch"
                  /\ u.last = "lastPage" =>
                        TSResponse(type, u.tokens[n]).NextPageToken = ""
                  /\ u.last = "more" =>
                        u.pageToken =
                           TSResponse(type, u.tokens[n]).NextPageToken
                  /\ u.translated =
                        IF u.last \in { "nilPage", "requestError" }
                        THEN n - 1 ELSE n
                  /\ u.pages =
                        IF u.last = "translateError"
                        THEN u.translated - 1 ELSE u.translated

\* C20, in every step: a unit makes at most one request, which it makes
\* only if it is not done, and a page is translated in the step of its
\* request.
C20_Step ==
    \A prefix \in Prefixes :
        (pPc[prefix] = "page" /\ pPc'[prefix] = "page") =>
            \A type \in DOMAIN units[prefix] :
                LET u == units[prefix][type]
                    v == units'[prefix][type]
                IN  /\ Len(v.tokens) <= Len(u.tokens) + 1
                    /\ v.translated <= u.translated + 1
                    /\ v.translated > u.translated =>
                          Len(v.tokens) > Len(u.tokens)
                    /\ u.pc = "done" => v = u

\* C20: the pages of a descriptor are requested one after another with the
\* next-page token of the previous response; the unit stops at the first
\* empty next-page token, nil page, request error or translation error and
\* makes no request after it; every page received is translated once before
\* the next request.
C20_SequentialPagination == [](C20_State) /\ [][C20_Step]_vars

\* C20 witness: a unit has requested two pages, the second with the token
\* of the first, translated both and stopped at the empty next-page token.
C20_Witness ==
    \E prefix \in Prefixes : \E type \in DOMAIN units[prefix] :
        /\ units[prefix][type].tokens = << "", "page2" >>
        /\ units[prefix][type].translated = 2
        /\ units[prefix][type].last = "lastPage"
        /\ units[prefix][type].pc = "done"

\* C20 witness of a stop on a translation error: one request, one
\* translation, and the unit is done.
C20_TranslationErrorWitness ==
    \E prefix \in Prefixes : \E type \in DOMAIN units[prefix] :
        /\ units[prefix][type].last = "translateError"
        /\ Len(units[prefix][type].tokens) = 1
        /\ units[prefix][type].pc = "done"

(* ----------------- whole-page claims (SpecPage) ---------------------- *)
\* The system labels of a series are present and do not decode.
Undecodable(timeSeries) ==
    /\ timeSeries.Metadata # << >>
    /\ timeSeries.Metadata[1].SystemLabels # << >>
    /\ ~timeSeries.Metadata[1].SystemLabels[1].valid

\* A series the page translation is to skip: unrecognized metric kind,
\* unrecognized value kind, or a distribution of no recognized variant.
Skippable(timeSeries) ==
    \/ timeSeries.MetricKind \notin { "GAUGE", "DELTA", "CUMULATIVE" }
    \/ timeSeries.ValueType
          \notin { "BOOL", "INT64", "DOUBLE", "DISTRIBUTION" }
    \/ /\ timeSeries.ValueType = "DISTRIBUTION"
       /\ \A pt \in LatestPoints(timeSeries) :
             pt.Value.DistributionValue.BucketOptions = NoBuckets

\* The unit, metric and resource labels of a series, in this order (the
\* series of the pages have no key in two of these groups).
PlainLabels(timeSeries) ==
    << << "unit", TSDescriptor.Unit >> >> \o timeSeries.Metric.Labels
        \o timeSeries.Resource.Labels

\* The series of the page that are to be translated, in page order.
Kept(page) == SelectSeq(page.TimeSeries, LAMBDA ts : ~Skippable(ts))

\* C21: translating a page none of whose series has a malformed interval end
\* returns no error and sends one sample per series that is not skipped, in
\* page order, whatever skipped series and series with undecodable system
\* labels the page holds; a series with undecodable system labels is sent
\* with its unit, metric and resource labels only; a series of an
\* unrecognized value kind or metric kind, or with a distribution of no
\* recognized variant, sends nothing.  Translating a page that holds a
\* malformed interval end returns an error.
C21_NonFatalDecodeProblems ==
    pageRes # << >> =>
        LET page == pageArg[1]
            kept == Kept(page)
            sent == pageRes[1].sent
        IN  IF \A i \in 1..Len(page.TimeSeries) : EndsParse(page.TimeSeries[i])
            THEN /\ pageRes[1].outcome = "ok"
                 /\ Len(sent) = Len(kept)
                 /\ \A i \in 1..Len(kept) :
                       LET l == PlainLabels(kept[i])
                       IN  /\ sent[i].labelKeys = [j \in 1..Len(l) |-> l[j][1]]
                           /\ sent[i].labelValues =
                                 [j \in 1..Len(l) |-> l[j][2]]
                           /\ sent[i].reportTime = LatestEnd(kept[i])
                           /\ kept[i].ValueType # "DISTRIBUTION" =>
                                 \E pt \in LatestPoints(kept[i]) :
                                    sent[i].value =
                                       ScalarOf(kept[i].ValueType, pt)
            ELSE pageRes[1].outcome = "error"

\* C21 witness: a page of a distribution of no recognized variant, a series
\* with undecodable system labels and a scalar series was translated without
\* error; the last two were sent, the second with its unit, metric and
\* resource labels.
C21_Witness ==
    /\ pageRes # << >>
    /\ Len(pageArg[1].TimeSeries) = 3
    /\ pageArg[1].TimeSeries[1].ValueType = "DISTRIBUTION"
    /\ Skippable(pageArg[1].TimeSeries[1])
    /\ Undecodable(pageArg[1].TimeSeries[2])
    /\ pageArg[1].TimeSeries[3].ValueType = "DOUBLE"
    /\ pageRes[1].outcome = "ok"
    /\ Len(pageRes[1].sent) = 2
    /\ pageRes[1].sent[1].labelKeys = << "unit", "zone", "host" >>
    /\ pageRes[1].sent[2].value = 7

\* C21 witness of the fatal case: the second series of a page has a
\* malformed interval end and the translation returned an error.
C21_MalformedWitness ==
    /\ pageRes # << >>
    /\ Len(pageArg[1].TimeSeries) = 2
    /\ EndsParse(pageArg[1].TimeSeries[1])
    /\ ~EndsParse(pageArg[1].TimeSeries[2])
    /\ pageRes[1].outcome = "error"

RECURSIVE Concat(_)
\* The pages of a listing one after another.
Concat(pages) ==
    IF pages = << >> THEN << >> ELSE Head(pages) \o Concat(Tail(pages))

\* C22 as claimed: a list the descriptor cache holds for a prefix is the
\* complete descriptor listing of the prefix, all pages in page order (or no
\* descriptor at all, which a lookup takes for a miss): no partial list is
\* stored when the listing ended with an error.
C22_CompleteListStored ==
    \A prefix \in Prefixes :
        prefix \in DOMAIN descriptorCache =>
            descriptorCache[prefix].data
                \in { << >>, Concat(listing[prefix]) }

\* A later scrape within the TTL takes a partial list from the cache and
\* starts the units of that list only.
C22_PartialListUsed ==
    \E prefix \in Prefixes :
        /\ collectPc = "running"
        /\ pHit[prefix]
        /\ pPc[prefix] = "page"
        /\ descriptorCache[prefix].data # Concat(listing[prefix])
        /\ now < descriptorCache[prefix].expiry

(* ---------------- googleDescriptorCache claims (SpecCache) ------------ *)
\* The keys of the calls inside the vendor namespace: those whose first
\* path segment contains googleapis.com.
VendorKeys ==
    { << "compute.googleapis.com" >>, << "compute.googleapis.com", "a" >> }

\* C15: after any sequence of Store and Lookup calls on the official-only
\* cache, a Lookup of a key outside the vendor namespace misses and the
\* Store calls for such keys have left the inner cache as it was, while for
\* a key inside the namespace the inner cache holds what a plain TTL cache
\* given the same calls holds and a Lookup returns what the plain cache
\* returns.
C15_OfficialOnlyCache ==
    /\ gCache = [key \in DOMAIN plainCache \cap VendorKeys |-> plainCache[key]]
    /\ lookedUp # << >> =>
          IF lookedUp[1].key \in VendorKeys
          THEN lookedUp[1].google = lookedUp[1].plain
          ELSE lookedUp[1].google = << >>

\* C15 witness: a key with googleapis.com in its second segment only was
\* stored and is looked up before it expires: the plain cache hits, the
\* official-only cache misses, and a vendor key is held by the inner cache.
C15_Witness ==
    /\ lookedUp # << >>
    /\ lookedUp[1].key = << "custom", "googleapis.com" >>
    /\ lookedUp[1].plain # << >>
    /\ lookedUp[1].google = << >>
    /\ DOMAIN gCache # { }

\* C15 witness of the other half: a vendor key is looked up and hits.
C15_VendorHit ==
    /\ lookedUp # << >>
    /\ lookedUp[1].key \in VendorKeys
    /\ lookedUp[1].google # << >>

(* ----------------- time-series call claims (SpecCall) ---------------- *)
\* prefix is a string-prefix of type.
IsPrefixOf(prefix, type) ==
    /\ Len(prefix) <= Len(type)
    /\ \A i \in 1..Len(prefix) : prefix[i] = type[i]

\* The positions of the configs whose prefix is a prefix of the type.
Matching(configs, type) ==
    { i \in 1..Len(configs) :
        IsPrefixOf(configs[i].TargetedMetricPrefix, type) }

\* The least element of a non-empty set of numbers.
Least(S) == CHOOSE i \in S : \A j \in S : i <= j

\* The filter the claim describes: the project clause when delegated
\* projects are dropped, the type clause, then one clause per matching
\* extra filter, in configuration order.
ExpectedFilter(c, md) ==
    LET head == IF c.monitoringDropDelegatedProjects
                THEN << [clause |-> "project=", arg |-> << c.projectID >>],
                        [clause |-> "metric.type=", arg |-> md.Type] >>
                ELSE << [clause |-> "metric.type=", arg |-> md.Type] >>
        hits == SelectSeq(c.metricsFilters,
                    LAMBDA ef : IsPrefixOf(ef.TargetedMetricPrefix, md.Type))
    IN  head \o [i \in 1..Len(hits) |->
                    [clause |-> "()", arg |-> hits[i].FilterQuery]]

\* C17: a call built without error carries the type filter (after the
\* project clause when delegated projects are dropped) followed by the query
\* of every extra filter whose prefix is a prefix of the type, in
\* configuration order; its aggregation parameters are those of the first
\* aggregation config whose prefix is a prefix of the type, and it has none
\* when no config matches.
C17_FilterAndAggregation ==
    (listCall # << >> /\ ~listCall[1].err) =>
        LET c == callArgs[1].c
            md == callArgs[1].md
            hits == Matching(c.metricsAggregationConfigs, md.Type)
        IN  /\ listCall[1].filter = ExpectedFilter(c, md)
            /\ listCall[1].aggregation =
                  IF hits = { } THEN << >>
                  ELSE << c.metricsAggregationConfigs[Least(hits)] >>

\* C17 witness: a call was built for a type that two extra filters and two
\* different aggregation configs match, with delegated projects dropped.
C17_Witness ==
    /\ listCall # << >>
    /\ ~listCall[1].err
    /\ callArgs[1].c.monitoringDropDelegatedProjects
    /\ Len(listCall[1].filter) = 4
    /\ Cardinality(Matching(callArgs[1].c.metricsAggregationConfigs,
                            callArgs[1].md.Type)) = 2
    /\ callArgs[1].c.metricsAggregationConfigs[1] #
          callArgs[1].c.metricsAggregationConfigs[2]
    /\ listCall[1].aggregation =
          << callArgs[1].c.metricsAggregationConfigs[1] >>

====
